---- MODULE Spec2Model ----
(***************************************************************************)
(* Deployment simulation and map synchronisation engine of SERO: the       *)
(* VehiclesMap component (src/unnamed/part_000).                           *)
(*                                                                         *)
(* Conventions of the model                                                *)
(*  - Times are integers counting half seconds, so that the playback speed *)
(*    0.5x is the integer 1 (speeds 0.5, 1, 2, 4 are 1, 2, 4, 8) and one    *)
(*    step of the scrub control (1 s) is 2.                                *)
(*  - Coordinates are integers counting thousandths of a degree.           *)
(*  - null is the string "null" for string ids and -1 for the cell id;     *)
(*    trips === null is tripsLoaded = FALSE.                               *)
(*  - A handler together with the render and the effects it triggers is    *)
(*    one step (React batches the state updates of one handler).           *)
(*  - The suspension points of fetchAll are its awaits: one step per       *)
(*    response that arrives.                                               *)
(***************************************************************************)
EXTENDS Integers, Sequences, FiniteSets, TLC

VARIABLES
  mounted,            \* the component instance is mounted
  currentTime,        \* useState(0)
  playing,            \* useState(true)
  playbackSpeed,      \* useState(1)
  gridCells,          \* useState([])
  trips,              \* useState(null): the list when tripsLoaded
  tripsLoaded,        \* trips !== null
  stations,           \* useState([])
  selectedTripId,     \* useState(null)
  selectedStationId,  \* useState(null)
  selectedCellId,     \* useState(null)
  timers,             \* active window.setInterval timers, each with its closure
  fetchSeq,           \* number of fetchAll calls started so far
  run,                \* the local variables of each fetchAll call
  inflight,           \* HTTP requests issued and not yet answered
  hist,               \* what the backend answered to each fetchAll call
  riskPending,        \* the /risk/latest request is in flight
  viewState,          \* useState({longitude, latitude, zoom, pitch, bearing})
  isTilted,           \* useState(true)
  chatContext,        \* the home page's useState({}): the latest snapshot
  picked,             \* what the hit-test of the last click found
  layerConfig,        \* useState([{key, label, visible}, ...])
  heap,               \* the station input objects, by reference
  fireStations,       \* the home page's useState(FIRE_STATION_INPUTS): references
  policeStations,     \* the home page's useState(POLICE_STATION_INPUTS): references
  activePanel,        \* the home page's useState("vehicles")
  chatOpen,           \* the home page's useState(false)
  chatPanel,          \* the state of the ChatPanel instance created last
  streams             \* POST /chat/stream requests in flight

clockVars == <<currentTime, playing, playbackSpeed, timers>>
dataVars  == <<trips, tripsLoaded, stations>>
selVars   == <<selectedTripId, selectedStationId, selectedCellId>>
orchVars  == <<fetchSeq, run, inflight, hist>>
riskVars  == <<gridCells, riskPending>>
camVars   == <<viewState, isTilted>>
viewVars  == <<camVars, chatContext>>
pageVars  == <<activePanel, chatOpen, chatPanel, streams>>
homeVars  == <<heap, fireStations, policeStations, pageVars>>
vars ==
  <<mounted, clockVars, dataVars, selVars, orchVars, riskVars, viewVars, picked,
    layerConfig, homeVars>>

----------------------------------------------------------------------------
(* Bounds *)
MaxSeq   == 2     \* fetchAll calls per component instance
MaxMoves == 2     \* moves in one deployment response
MaxSeek  == 2     \* scrub positions tried from the left end, besides the right end
MaxFleetMoves == 21  \* moves in one deployment response of a large scenario
MaxObjects == 3   \* station input objects ever created, the defaults included
MaxExchanges == 2 \* question and answer pairs in the message list of the chat panel
MaxStreams == 2   \* chat requests in flight, those of closed panels included
MaxChunks == 1    \* data chunks read from one chat stream
GridMargin == 2   \* cells beyond each edge of the grid that the camera is panned over

Null   == "null"
NoCell == -1

Runs == 1..MaxSeq

----------------------------------------------------------------------------
(* Data *)

Pt(t, lon, lat) == [time |-> t, lon |-> lon, lat |-> lat]

SAMPLE_TRIPS ==
  << [ id            |-> "veh_101",
       fleet_type    |-> "fire",
       path          |-> << Pt(0,   -122345, 47600),
                            Pt(120, -122340, 47605),
                            Pt(240, -122335, 47610),
                            Pt(360, -122330, 47615) >>,
       fromStationId |-> Null,
       toStationId   |-> Null ] >>

\* fleetConfigs, in the order the loop visits them
FleetOrder == <<"fire", "police">>

Max(S) == CHOOSE x \in S : \A y \in S : y <= x

\* t.path[t.path.length - 1]?.time ?? 0
LastTime(path) == IF Len(path) = 0 THEN 0 ELSE path[Len(path)].time

MaxTimeOf(loaded, tr) ==
  IF ~loaded \/ Len(tr) = 0 THEN 0
  ELSE Max({ LastTime(tr[i].path) : i \in 1..Len(tr) })

maxTime == MaxTimeOf(tripsLoaded, trips)

----------------------------------------------------------------------------
(* interpolatePosition, lines 67-84. A coordinate it returns is a number that
   need not be a whole count of thousandths of a degree: it is kept as the
   exact fraction num / den in lowest terms, den > 0; the result of 0 / 0 (NaN)
   is the fraction with den = 0. *)

RECURSIVE GCD(_, _)
GCD(a, b) == IF b = 0 THEN a ELSE GCD(b, a % b)

Abs(x) == IF x < 0 THEN 0 - x ELSE x

NaN == [num |-> 0, den |-> 0]

\* the number n / d, d >= 0
Rat(n, d) ==
  IF d = 0 THEN NaN
  ELSE LET g == GCD(Abs(n), d) IN [num |-> n \div g, den |-> d \div g]

Whole(n) == [num |-> n, den |-> 1]

\* an interpolation that measures the fraction from the far end of the segment
LerpFromEnd(a, b, n, d) == Rat(b * d + (a - b) * n, d)

\* a + (b - a) * ratio with ratio = n / d; ratio is NaN when d = 0 (then n = 0)
Lerp(a, b, n, d) == Rat(a * d + (b - a) * n, d)

RECURSIVE SegmentLoop(_, _, _)
\* the for loop of lines 73-82 from i (counted from 0) and the return after it
SegmentLoop(path, t, i) ==
  IF i >= Len(path) - 1 THEN <<Whole(path[1].lon), Whole(path[1].lat)>>
  ELSE LET p0 == path[i + 1]
           p1 == path[i + 2]
       IN IF t >= p0.time /\ t <= p1.time
          THEN << Lerp(p0.lon, p1.lon, t - p0.time, p1.time - p0.time),
                  Lerp(p0.lat, p1.lat, t - p0.time, p1.time - p0.time) >>
          ELSE SegmentLoop(path, t, i + 1)

\* an interpolation without the test for the end of the path
interpolatePositionOpenEnd(path, t) ==
  IF Len(path) = 0 THEN <<Whole(0), Whole(0)>>
  ELSE IF t <= path[1].time THEN <<Whole(path[1].lon), Whole(path[1].lat)>>
  ELSE SegmentLoop(path, t, 0)

\* an interpolation whose two end tests leave out the end times themselves
interpolatePositionStrictEnds(path, t) ==
  IF Len(path) = 0 THEN <<Whole(0), Whole(0)>>
  ELSE IF t < path[1].time THEN <<Whole(path[1].lon), Whole(path[1].lat)>>
  ELSE IF t > path[Len(path)].time
  THEN <<Whole(path[Len(path)].lon), Whole(path[Len(path)].lat)>>
  ELSE SegmentLoop(path, t, 0)

\* interpolatePosition(path, t): [lon, lat]
interpolatePosition(path, t) ==
  IF Len(path) = 0 THEN <<Whole(0), Whole(0)>>
  ELSE IF t <= path[1].time THEN <<Whole(path[1].lon), Whole(path[1].lat)>>
  ELSE IF t >= path[Len(path)].time
  THEN <<Whole(path[Len(path)].lon), Whole(path[Len(path)].lat)>>
  ELSE SegmentLoop(path, t, 0)

----------------------------------------------------------------------------
(* The tick effect: useEffect(..., [playing, maxTime, playbackSpeed]) *)

\* an effect that returns no cleanup
NoCleanup(tm) == tm

\* the cleanup returned by the previous run of the effect: clearInterval(id)
EffectCleanup(tm) ==
  IF Len(tm) > 0 THEN SubSeq(tm, 1, Len(tm) - 1) ELSE tm

\* the body of the effect
TickEffect(tm, p, mt, sp) ==
  IF ~p \/ mt = 0 THEN tm
  ELSE Append(tm, [maxTime |-> mt, playbackSpeed |-> sp])

\* a tick effect whose dependency list leaves out playbackSpeed
RerenderWithoutSpeed ==
  timers' =
    IF <<playing', MaxTimeOf(tripsLoaded', trips')>> # <<playing, maxTime>>
    THEN TickEffect(EffectCleanup(timers), playing',
                    MaxTimeOf(tripsLoaded', trips'), playbackSpeed')
    ELSE timers

\* after a render: the effect runs again only when a dependency changed
Rerender ==
  timers' =
    IF <<playing', MaxTimeOf(tripsLoaded', trips'), playbackSpeed'>>
         # <<playing, maxTime, playbackSpeed>>
    THEN TickEffect(EffectCleanup(timers), playing',
                    MaxTimeOf(tripsLoaded', trips'), playbackSpeed')
    ELSE timers

----------------------------------------------------------------------------
(* The context snapshot, lines 401-491 *)

\* GRID_MIN_LAT .. GRID_LON_STEP, in 1/1000 degree
GRID_MIN_LAT  == 47480
GRID_MAX_LAT  == 47750
GRID_MIN_LON  == -122450
GRID_MAX_LON  == -122220
GRID_LAT_STEP == 10
GRID_LON_STEP == 10

\* Math.ceil((GRID_MAX_LAT - GRID_MIN_LAT) / GRID_LAT_STEP) in double
\* arithmetic: the quotient is 27.000000000000313, which rounds up to 28
nLat == (GRID_MAX_LAT - GRID_MIN_LAT) \div GRID_LAT_STEP + 1
\* likewise 23.000000000000398 rounds up to 24
nLon == (GRID_MAX_LON - GRID_MIN_LON) \div GRID_LON_STEP + 1

\* The coordinates given to the function in this model are centres of cells
\* (odd multiples of half a step), for which the floor of the double quotient
\* is the floor of the exact one.
latLonToCellId(lat, lon) ==
  LET i == (lat - GRID_MIN_LAT) \div GRID_LAT_STEP
      j == (lon - GRID_MIN_LON) \div GRID_LON_STEP
  IN IF i < 0 \/ j < 0 \/ i >= nLat \/ j >= nLon THEN NoCell
     ELSE i * nLon + j

\* a nullable object: <<>> is null, <<x>> is the object x
None == <<>>
Some(x) == <<x>>

Min(S) == CHOOSE x \in S : \A y \in S : x <= y

\* Array.prototype.find(...) ?? null, hits being the positions that pass the test
Find(arr, hits) ==
  IF hits = {} THEN None ELSE Some(arr[Min(hits)])

\* what JavaScript treats as true among the values an id can take
Truthy(x) == x # Null /\ x # ""

\* useMemo(..., [trips, selectedTripId])
selectedTrip ==
  IF ~tripsLoaded \/ ~Truthy(selectedTripId) THEN None
  ELSE Find(trips, { k \in 1..Len(trips) : trips[k].id = selectedTripId })

\* a selection that remembers the entry of the list it was made in
selectedStationOfFirstList ==
  IF ~Truthy(selectedStationId) THEN None
  ELSE Find(run[1].allStations,
            { k \in 1..Len(run[1].allStations) :
                run[1].allStations[k].station_id = selectedStationId })

\* useMemo(..., [stations, selectedStationId])
selectedStation ==
  IF ~Truthy(selectedStationId) THEN None
  ELSE Find(stations,
            { k \in 1..Len(stations) : stations[k].station_id = selectedStationId })

\* a slice that keeps the element at index end
SliceInclusive(arr, start, end) ==
  SubSeq(arr, start + 1, IF end + 1 < Len(arr) THEN end + 1 ELSE Len(arr))

\* Array.prototype.slice(start, end) for 0 <= start
Slice(arr, start, end) ==
  SubSeq(arr, start + 1, IF end < Len(arr) THEN end ELSE Len(arr))

selectedStationContext ==
  IF selectedStation = None THEN None
  ELSE LET st == selectedStation[1] IN
       Some([ station_id |-> st.station_id,
              name       |-> st.name,
              fleet_type |-> st.fleet_type,
              lat        |-> st.lat,
              lon        |-> st.lon,
              in_move    |-> st.inMove ])

selectedTripContext ==
  IF selectedTrip = None THEN None
  ELSE LET t == selectedTrip[1] IN
       Some([ id              |-> t.id,
              fleet_type      |-> t.fleet_type,
              from_station_id |-> t.fromStationId,
              to_station_id   |-> t.toStationId ])

stationIds ==
  LET Test(x) == Truthy(x)
  IN SelectSeq([k \in 1..Len(stations) |-> stations[k].station_id], Test)

\* a list of moving stations that leaves out the test of the inMove flag
movingStationIdsOfAll ==
  LET Test(x) == Truthy(x)
  IN SelectSeq([k \in 1..Len(stations) |-> stations[k].station_id], Test)

\* stations.filter((s) => s.inMove).map((s) => s.station_id).filter(Boolean)
movingStationIds ==
  LET Moving(st) == st.inMove
      Test(x) == Truthy(x)
      moving == SelectSeq(stations, Moving)
  IN SelectSeq([k \in 1..Len(moving) |-> moving[k].station_id], Test)

\* const moves = (trips ?? []).map(...).filter(...).slice(0, 20)
deploymentMoves ==
  LET list == IF tripsLoaded THEN trips ELSE <<>>
      Test(m) == Truthy(m.from_station_id) /\ Truthy(m.to_station_id)
  IN Slice(SelectSeq([ k \in 1..Len(list) |->
                         [ from_station_id |-> list[k].fromStationId,
                           to_station_id   |-> list[k].toStationId,
                           fleet_type      |-> list[k].fleet_type ] ],
                     Test),
           0, 20)

\* const context: ChatContext = {...}
Context ==
  [ map |-> [ center  |-> [lat |-> viewState.latitude, lon |-> viewState.longitude],
              zoom    |-> viewState.zoom,
              pitch   |-> viewState.pitch,
              bearing |-> viewState.bearing ],
    focused_cell_id  |->
      IF selectedCellId # NoCell THEN selectedCellId
      ELSE latLonToCellId(viewState.latitude, viewState.longitude),
    selected_cell_id |-> selectedCellId,
    selected_station |-> selectedStationContext,
    selected_trip    |-> selectedTripContext,
    deployment |-> [ station_ids        |-> stationIds,
                     moving_station_ids |-> movingStationIds,
                     moves              |-> deploymentMoves ] ]

\* a dependency list that leaves out the lists
ContextDepsWithoutLists ==
  <<viewState, selectedCellId, selectedStation, selectedTrip>>

\* the dependency list of the effect, without the stable onContextChange
ContextDeps ==
  <<viewState, selectedCellId, selectedStation, selectedTrip, stations,
    tripsLoaded, trips>>

\* after a render: onContextChange(context) when a dependency changed
ContextEffect ==
  chatContext' = IF ContextDeps' # ContextDeps THEN Context' ELSE chatContext

----------------------------------------------------------------------------
(* The station inputs: home.tsx lines 26-31, StationEditor.tsx lines 26-60.
   A list is a sequence of references into heap, so that an object shared by
   two lists is one object. The editor is on screen while activePanel is
   "stations" (home.tsx lines 236-243). *)

\* the built-in default inputs: one station per fleet
FIRE_STATION_INPUTS   == <<1>>
POLICE_STATION_INPUTS == <<2>>

StationInput(id, lat, lon, n) ==
  [station_id |-> id, lat |-> lat, lon |-> lon, vehicles_current |-> n]

DefaultHeap ==
  <<StationInput("FS1", 47600, -122330, 1), StationInput("PS1", 47610, -122340, 1)>>

\* the value of a list: what JSON.stringify writes for it
Deref(list) == [k \in 1..Len(list) |-> heap[list[k]]]

\* a fetchAll that ignores the lists it is given
fleetConfigsOfDefaults ==
  << [fleet_type |-> "fire",   stations |-> FIRE_STATION_INPUTS],
     [fleet_type |-> "police", stations |-> POLICE_STATION_INPUTS] >>

\* const fleetConfigs = [{fleet_type: "fire", stations: fireStations ?? ...}, ...]
fleetConfigs ==
  << [fleet_type |-> "fire",   stations |-> fireStations],
     [fleet_type |-> "police", stations |-> policeStations] >>

\* body: JSON.stringify({fleet_type, stations: inputStations}) of run s, fleet f
DeployBody(s, f) ==
  [ fleet_type |-> run[s].fleetConfigs[f].fleet_type,
    stations   |-> Deref(run[s].fleetConfigs[f].stations) ]

\* the list of table f of the editor: 1 is the fire table, 2 the police table
TableList(f) == IF f = 1 THEN fireStations ELSE policeStations

\* onChangeFire={setFireStations} / onChangePolice={setPoliceStations}
OnChange(f, next) ==
  /\ fireStations' = IF f = 1 THEN next ELSE fireStations
  /\ policeStations' = IF f = 2 THEN next ELSE policeStations

\* Number(value) for the strings typed in this model; coordinates in 1/1000 degree
Number(value) ==
  CASE value = "" -> 0
    [] value = "3" -> 3
    [] value = "47.62" -> 47620

NumericFields == {"lat", "lon", "vehicles_current"}

\* what is left unchanged by every handler of the editor
EditorFrame ==
  UNCHANGED <<mounted, clockVars, dataVars, selVars, orchVars, riskVars, viewVars,
              picked, layerConfig, pageVars>>

\* updateField(index, field, value) of table f, index counted from 0
updateField(f, index, field, value) ==
  /\ activePanel = "stations"
  /\ IF index + 1 \in 1..Len(TableList(f))
     THEN /\ heap' = [heap EXCEPT ![TableList(f)[index + 1]][field] =
                        IF field \in NumericFields THEN Number(value) ELSE value]
          /\ OnChange(f, TableList(f))
     ELSE UNCHANGED homeVars
  /\ EditorFrame

\* addRow of table f
addRow(f) ==
  /\ activePanel = "stations"
  /\ Len(heap) < MaxObjects
  /\ heap' = Append(heap, StationInput("", 47600, -122330, 1))
  /\ OnChange(f, Append(TableList(f), Len(heap) + 1))
  /\ EditorFrame

\* removeRow(index) of table f, index counted from 0
removeRow(f, index) ==
  /\ activePanel = "stations"
  /\ OnChange(f, LET keep == { k \in 1..Len(TableList(f)) : k - 1 # index }
                     list == TableList(f)
                 IN [n \in 1..Cardinality(keep) |->
                       list[CHOOSE k \in keep :
                              Cardinality({ j \in keep : j <= k }) = n]])
  /\ UNCHANGED heap
  /\ EditorFrame

----------------------------------------------------------------------------
(* fetchAll *)

EmptyDeployment == [stations |-> <<>>, moves |-> <<>>]

InitLocals ==
  [ pc               |-> "idle",
    fleetIdx         |-> 1,
    allStations      |-> <<>>,
    allTrips         |-> <<>>,
    activeStationIds |-> {},
    deployment       |-> EmptyDeployment,
    fleetFromBackend |-> Null,
    routeResponses   |-> <<>>,
    fleetConfigs     |-> <<>>,
    completed        |-> <<>> ]   \* the moves whose route promise settled, in that order

NoAnswer == [dep |-> "none", stations |-> <<>>, moves |-> <<>>, routes |-> <<>>]

Req(s, kind, f, i) == [seq |-> s, kind |-> kind, fleet |-> f, i |-> i]

StationIdsOf(sts) == { sts[k].station_id : k \in 1..Len(sts) }

\* (deployment.fleet_type as FleetType) ?? fleet_type
FleetFromBackend(reported, fleet_type) ==
  IF reported = Null THEN fleet_type ELSE reported

\* a lookup that is content with one known endpoint
ResolvedByEitherEnd(deployment, move) ==
  \/ move.from_station_id \in StationIdsOf(deployment.stations)
  \/ move.to_station_id \in StationIdsOf(deployment.stations)

\* const from = stationById[...]; const to = stationById[...]; if (!from || !to)
Resolved(deployment, move) ==
  /\ move.from_station_id \in StationIdsOf(deployment.stations)
  /\ move.to_station_id \in StationIdsOf(deployment.stations)

Pending == [st |-> "pending", points |-> <<>>]
Dropped == [st |-> "null", points |-> <<>>]
Routed(points) == [st |-> "ok", points |-> points]

\* lines 255-285: the deployment response has been parsed
AfterDeployment(loc, r) ==
  LET fleet_type == FleetOrder[loc.fleetIdx]
      ffb    == FleetFromBackend(r.fleet_type, fleet_type)
      active == loc.activeStationIds
                  \cup { r.moves[k].from_station_id : k \in 1..Len(r.moves) }
                  \cup { r.moves[k].to_station_id : k \in 1..Len(r.moves) }
      stationsWithFleet ==
        [ k \in 1..Len(r.stations) |->
            [ station_id |-> r.stations[k].station_id,
              name       |-> r.stations[k].name,
              lat        |-> r.stations[k].lat,
              lon        |-> r.stations[k].lon,
              fleet_type |-> ffb,
              inMove     |-> r.stations[k].station_id \in active ] ]
      dep == [stations |-> r.stations, moves |-> r.moves]
  IN [ loc EXCEPT
         !.fleetFromBackend = ffb,
         !.activeStationIds = active,
         !.allStations      = loc.allStations \o stationsWithFleet,
         !.deployment       = dep,
         !.routeResponses   =
            [ k \in 1..Len(r.moves) |->
                IF Resolved(dep, r.moves[k]) THEN Pending ELSE Dropped ],
         !.completed        = <<>> ]

\* `${fleetFromBackend}_${move.from_station_id}_${move.to_station_id}_${i}`
TripId(ffb, move, i) ==
  ffb \o "_" \o move.from_station_id \o "_" \o move.to_station_id
      \o "_" \o ToString(i)

BaseTrip(ffb, move, i, points) ==
  [ id            |-> TripId(ffb, move, i),
    fleet_type    |-> ffb,
    path          |-> points,
    fromStationId |-> move.from_station_id,
    toStationId   |-> move.to_station_id ]

RECURSIVE TripsFrom(_, _, _, _)
\* the loop of lines 311-339 from index k (1-based; the id carries k - 1)
TripsFrom(ffb, moves, rr, k) ==
  IF k > Len(rr) THEN <<>>
  ELSE IF rr[k].st # "ok" THEN TripsFrom(ffb, moves, rr, k + 1)
  ELSE <<BaseTrip(ffb, moves[k], k - 1, rr[k].points)>>
         \o TripsFrom(ffb, moves, rr, k + 1)

RECURSIVE TripsInOrder(_, _, _, _, _)
TripsInOrder(ffb, moves, rr, order, n) ==
  IF n > Len(order) THEN <<>>
  ELSE IF rr[order[n]].st # "ok" THEN TripsInOrder(ffb, moves, rr, order, n + 1)
  ELSE <<BaseTrip(ffb, moves[order[n]], order[n] - 1, rr[order[n]].points)>>
         \o TripsInOrder(ffb, moves, rr, order, n + 1)

\* trips pushed as their route responses arrive
AssembleInCompletionOrder(loc) ==
  [ loc EXCEPT !.allTrips =
      loc.allTrips
        \o TripsInOrder(loc.fleetFromBackend, loc.deployment.moves,
                        loc.routeResponses, loc.completed, 1) ]

AssembleTrips(loc) ==
  [ loc EXCEPT !.allTrips =
      loc.allTrips
        \o TripsFrom(loc.fleetFromBackend, loc.deployment.moves,
                     loc.routeResponses, 1) ]

\* a combinator that resolves with the first route promise to settle
AnySettled(rr) == \E k \in 1..Len(rr) : rr[k].st # "pending"

\* Promise.all resolves once no route promise is pending
AllSettled(rr) == \A k \in 1..Len(rr) : rr[k].st # "pending"

\* a completion whose render shows the new stations with the old trips
CommitStationsOnly(st, tr) ==
  IF mounted
  THEN /\ stations' = st
       /\ currentTime' = 0
       /\ UNCHANGED <<trips, tripsLoaded, playing, playbackSpeed>>
       /\ Rerender
       /\ ContextEffect
  ELSE UNCHANGED <<dataVars, clockVars, chatContext>>

\* a completion that also starts the clock again
CommitAndPlay(st, tr) ==
  IF mounted
  THEN /\ stations' = st
       /\ trips' = tr
       /\ tripsLoaded' = TRUE
       /\ currentTime' = 0
       /\ playing' = TRUE
       /\ UNCHANGED playbackSpeed
       /\ Rerender
       /\ ContextEffect
  ELSE UNCHANGED <<dataVars, clockVars, chatContext>>

\* setStations / setTrips / setCurrentTime of one completion, then the render
Commit(st, tr) ==
  IF mounted
  THEN /\ stations' = st
       /\ trips' = tr
       /\ tripsLoaded' = TRUE
       /\ currentTime' = 0
       /\ UNCHANGED <<playing, playbackSpeed>>
       /\ Rerender
       /\ ContextEffect
  ELSE UNCHANGED <<dataVars, clockVars, chatContext>>

\* no fallback substituted for an empty trip list
FinishNoFallback(loc) == Commit(loc.allStations, loc.allTrips)

\* a fallback that takes the place of the whole result, stations included
FinishFallbackAlone(loc) ==
  IF Len(loc.allTrips) = 0 THEN Commit(<<>>, SAMPLE_TRIPS)
  ELSE Commit(loc.allStations, loc.allTrips)

\* lines 342-348
Finish(loc) ==
  Commit(loc.allStations,
         IF Len(loc.allTrips) = 0 THEN SAMPLE_TRIPS ELSE loc.allTrips)

\* a catch block that clears the stations and keeps the trips on the map
CatchAllKeepsTrips == Commit(<<>>, IF tripsLoaded THEN trips ELSE SAMPLE_TRIPS)

\* a catch block that only logs the error
CatchAllLogsOnly == UNCHANGED <<dataVars, clockVars, chatContext>>

\* lines 349-357
CatchAll == Commit(<<>>, SAMPLE_TRIPS)

\* the end of one iteration of the loop over fleetConfigs
EndOfFleet(s, loc, sent) ==
  IF loc.fleetIdx < Len(FleetOrder)
  THEN /\ run' = [run EXCEPT ![s] =
                    [loc EXCEPT !.pc = "deploy", !.fleetIdx = loc.fleetIdx + 1,
                                !.routeResponses = <<>>]]
       /\ inflight' = sent \cup {Req(s, "deploy", loc.fleetIdx + 1, 0)}
       /\ UNCHANGED <<dataVars, clockVars, chatContext>>
  ELSE /\ run' = [run EXCEPT ![s] = [loc EXCEPT !.pc = "done"]]
       /\ inflight' = sent
       /\ Finish(loc)

\* the effect of lines 215-361 runs: fetchAll() issues the fire request
StartFetch ==
  /\ mounted
  /\ fetchSeq < MaxSeq
  /\ fetchSeq' = fetchSeq + 1
  /\ run' = [run EXCEPT ![fetchSeq + 1] =
                [InitLocals EXCEPT !.pc = "deploy", !.fleetConfigs = fleetConfigs]]
  /\ inflight' = inflight \cup {Req(fetchSeq + 1, "deploy", 1, 0)}
  /\ UNCHANGED <<mounted, hist, clockVars, dataVars, selVars, riskVars, viewVars, picked,
                 layerConfig, homeVars>>

\* the answer to POST /optimize/deployment arrives
DeployResponded(s, r) ==
  /\ run[s].pc = "deploy"
  /\ Req(s, "deploy", run[s].fleetIdx, 0) \in inflight
  /\ UNCHANGED <<mounted, fetchSeq, selVars, riskVars, camVars, picked,
                 layerConfig, homeVars>>
  /\ LET f    == run[s].fleetIdx
         sent == inflight \ {Req(s, "deploy", f, 0)}
     IN
       CASE r.status = "reject" ->
              /\ hist' = [hist EXCEPT ![s][f].dep = "reject"]
              /\ run' = [run EXCEPT ![s].pc = "done"]
              /\ inflight' = sent
              /\ CatchAll
         [] r.status = "notok" ->
              /\ hist' = [hist EXCEPT ![s][f].dep = "notok"]
              /\ EndOfFleet(s, run[s], sent)
         [] OTHER ->
              LET loc == AfterDeployment(run[s], r)
                  rr  == loc.routeResponses
                  routeReqs == { Req(s, "route", f, k) :
                                   k \in { j \in 1..Len(rr) : rr[j].st = "pending" } }
              IN /\ hist' = [hist EXCEPT ![s][f] =
                               [dep |-> "ok", stations |-> r.stations,
                                moves |-> r.moves,
                                routes |-> [k \in 1..Len(rr) |-> rr[k].st]]]
                 /\ IF AllSettled(rr)
                    THEN EndOfFleet(s, AssembleTrips(loc), sent)
                    ELSE /\ run' = [run EXCEPT ![s] = [loc EXCEPT !.pc = "routes"]]
                         /\ inflight' = sent \cup routeReqs
                         /\ UNCHANGED <<dataVars, clockVars, chatContext>>

\* the answer to one POST /route arrives
RouteResponded(s, f, i, o) ==
  /\ Req(s, "route", f, i) \in inflight
  /\ UNCHANGED <<mounted, fetchSeq, selVars, riskVars, camVars, picked,
                 layerConfig, homeVars>>
  /\ hist' = [hist EXCEPT ![s][f].routes[i] = o.status]
  /\ LET sent == inflight \ {Req(s, "route", f, i)} IN
       IF run[s].pc = "routes" /\ run[s].fleetIdx = f
       THEN CASE o.status = "reject" ->
                   /\ run' = [run EXCEPT ![s].pc = "done"]
                   /\ inflight' = sent
                   /\ CatchAll
              [] OTHER ->
                   LET entry == IF o.status = "ok" THEN Routed(o.points) ELSE Dropped
                       loc == [run[s] EXCEPT !.routeResponses[i] = entry,
                                             !.completed = Append(@, i)]
                   IN IF AllSettled(loc.routeResponses)
                      THEN EndOfFleet(s, AssembleTrips(loc), sent)
                      ELSE /\ run' = [run EXCEPT ![s] = loc]
                           /\ inflight' = sent
                           /\ UNCHANGED <<dataVars, clockVars, chatContext>>
       ELSE \* Promise.all has already rejected: the answer is discarded
            /\ inflight' = sent
            /\ UNCHANGED <<run, dataVars, clockVars, chatContext>>

----------------------------------------------------------------------------
(* What the backend may answer *)

Station(id) ==
  [station_id |-> id, name |-> "Station " \o id, lat |-> 47600, lon |-> -122330]
Move(a, b)  == [from_station_id |-> a, to_station_id |-> b]

StationLists == { <<Station("S1"), Station("S2")>>, <<Station("S1")>> }
MovePairs    == { Move("S1", "S2"), Move("S1", "S1") }

SeqsUpTo(S, n) == UNION { [1..k -> S] : k \in 0..n }

\* a route of two points, one of a single point at time 0, and an empty one
RoutePath == <<Pt(0, -122330, 47600), Pt(4, -122320, 47610)>>
StillPath == <<Pt(0, -122330, 47600)>>
RoutePoints == { <<>>, RoutePath }

DeployFailures == { [status |-> "notok"], [status |-> "reject"] }

DeployAnswers(fleets, lists, moves) ==
  { [status |-> "ok", fleet_type |-> ft, stations |-> sl, moves |-> mv] :
      ft \in fleets, sl \in lists, mv \in moves }

RouteFailures ==
  { [status |-> "notok", points |-> <<>>], [status |-> "reject", points |-> <<>>] }

RoutesWith(paths) == { [status |-> "ok", points |-> p] : p \in paths }
RouteAnswers == RoutesWith(RoutePoints)

\* a backend with at most one move per fleet
FewDeployAnswers ==
  DeployAnswers({Null}, StationLists, SeqsUpTo({Move("S1", "S2")}, 1))

\* a backend that knows two stations and recommends the one move between them
PlainDeployAnswers ==
  { [status |-> "notok"] }
    \cup DeployAnswers({Null}, {<<Station("S1"), Station("S2")>>},
                       {<<Move("S1", "S2")>>})

\* the same backend with no police data: every police request is refused
ClockDeployAnswers(f) ==
  IF f = 1 THEN PlainDeployAnswers ELSE { [status |-> "notok"] }

RiskFailures ==
  { [status |-> "notok", cells |-> <<>>], [status |-> "reject", cells |-> <<>>] }

RiskAnswers ==
  RiskFailures
    \cup { [status |-> "ok", cells |-> c] :
             c \in { <<>>, <<[cell_id |-> 0]>>, <<[cell_id |-> 0], [cell_id |-> 1]>> } }

----------------------------------------------------------------------------
(* GET /risk/latest, lines 173-213 *)

\* a risk fetch whose failure takes the deployment requests down with it
RiskRespondedFatal(r) ==
  /\ riskPending
  /\ riskPending' = FALSE
  /\ gridCells' =
       IF ~mounted THEN gridCells
       ELSE IF r.status = "ok"
       THEN [k \in 1..Len(r.cells) |-> [cellId |-> r.cells[k].cell_id]]
       ELSE <<>>
  /\ inflight' = IF r.status = "ok" THEN inflight ELSE {}
  /\ UNCHANGED <<mounted, clockVars, dataVars, selVars, fetchSeq, run, hist, viewVars,
                 picked, layerConfig, homeVars>>

\* the answer to GET /risk/latest: success, non-success, or a failed request
RiskResponded(r) ==
  /\ riskPending
  /\ riskPending' = FALSE
  /\ gridCells' =
       IF ~mounted THEN gridCells
       ELSE IF r.status = "ok"
       THEN [k \in 1..Len(r.cells) |-> [cellId |-> r.cells[k].cell_id]]
       ELSE <<>>
  /\ UNCHANGED <<mounted, clockVars, dataVars, selVars, orchVars, viewVars, picked,
                 layerConfig, homeVars>>

----------------------------------------------------------------------------
(* Playback clock *)

\* <option value={0.5}> ... <option value={4}>, in half seconds per tick
Speeds == {1, 2, 4, 8}

\* the callback of window.setInterval, with the values its closure captured
TickOf(c, prev) ==
  IF c.maxTime = 0 THEN prev
  ELSE IF prev + c.playbackSpeed >= c.maxTime THEN 0
  ELSE prev + c.playbackSpeed

Tick(k) ==
  /\ mounted
  /\ k \in 1..Len(timers)
  /\ currentTime' = TickOf(timers[k], currentTime)
  /\ UNCHANGED <<mounted, playing, playbackSpeed, timers, dataVars, selVars,
                 orchVars, riskVars, viewVars, picked,
                 layerConfig, homeVars>>

\* onClick={() => setPlaying((p) => !p)}
TogglePlaying ==
  /\ mounted /\ tripsLoaded
  /\ playing' = ~playing
  /\ UNCHANGED <<currentTime, playbackSpeed, dataVars>>
  /\ Rerender
  /\ UNCHANGED <<mounted, selVars, orchVars, riskVars, viewVars, picked,
                 layerConfig, homeVars>>

\* onChange={(e) => setPlaybackSpeed(Number(e.target.value))}
SetSpeed(v) ==
  /\ mounted /\ tripsLoaded
  /\ playbackSpeed' = v
  /\ UNCHANGED <<currentTime, playing, dataVars>>
  /\ Rerender
  /\ UNCHANGED <<mounted, selVars, orchVars, riskVars, viewVars, picked,
                 layerConfig, homeVars>>

\* <input type="range" min={0} max={Math.max(maxTime, 1)} step={1}>
ScrubMax(mt) == IF mt > 2 THEN mt ELSE 2
ScrubValues(mt) == { v \in 0..ScrubMax(mt) : v % 2 = 0 }

\* a scrub that moves the clock and leaves it running
SeekKeepsPlaying(v) ==
  /\ mounted /\ tripsLoaded
  /\ v \in ScrubValues(maxTime)
  /\ currentTime' = v
  /\ UNCHANGED <<playing, playbackSpeed, dataVars>>
  /\ Rerender
  /\ UNCHANGED <<mounted, selVars, orchVars, riskVars, viewVars, picked,
                 layerConfig, homeVars>>

\* the scrub control's onChange
Seek(v) ==
  /\ mounted /\ tripsLoaded
  /\ v \in ScrubValues(maxTime)
  /\ currentTime' = v
  /\ playing' = FALSE
  /\ UNCHANGED <<playbackSpeed, dataVars>>
  /\ Rerender
  /\ UNCHANGED <<mounted, selVars, orchVars, riskVars, viewVars, picked,
                 layerConfig, homeVars>>

\* the component is torn down: every effect's cleanup runs
Teardown ==
  /\ mounted
  /\ mounted' = FALSE
  /\ timers' = EffectCleanup(timers)
  /\ UNCHANGED <<currentTime, playing, playbackSpeed, dataVars, selVars,
                 orchVars, riskVars, viewVars, picked, layerConfig>>

\* the page that shows the component is left
Unmount == Teardown /\ UNCHANGED homeVars

----------------------------------------------------------------------------
(* Selection: the onClick handlers of the pickable layers and of DeckGL *)

Select(tripId, stationId, cellId) ==
  /\ selectedTripId' = tripId
  /\ selectedStationId' = stationId
  /\ selectedCellId' = cellId
  /\ UNCHANGED <<mounted, clockVars, dataVars, orchVars, riskVars, camVars,
                 layerConfig, homeVars>>
  /\ ContextEffect

\* heatmapLayer.onClick
ClickCell(k) ==
  /\ mounted /\ tripsLoaded
  /\ k \in 1..Len(gridCells)
  /\ picked' = "cell"
  /\ Select(Null, Null, gridCells[k].cellId)

\* a vehicle click that forgets to clear the station
ClickVehicleKeepsStation(k) ==
  /\ mounted /\ tripsLoaded
  /\ k \in 1..Len(trips)
  /\ picked' = "vehicle"
  /\ Select(trips[k].id, selectedStationId, NoCell)

\* vehicleIconsLayer.onClick
ClickVehicle(k) ==
  /\ mounted /\ tripsLoaded
  /\ k \in 1..Len(trips)
  /\ picked' = "vehicle"
  /\ Select(trips[k].id, Null, NoCell)

\* stationIconsLayer.onClick
ClickStation(k) ==
  /\ mounted /\ tripsLoaded
  /\ k \in 1..Len(stations)
  /\ picked' = "station"
  /\ Select(Null, stations[k].station_id, NoCell)

\* a background click that leaves the cell selected
ClickBackgroundKeepsCell ==
  /\ mounted /\ tripsLoaded
  /\ picked' = "nothing"
  /\ Select(Null, Null, selectedCellId)

\* DeckGL onClick with no picked object
ClickBackground ==
  /\ mounted /\ tripsLoaded
  /\ picked' = "nothing"
  /\ Select(Null, Null, NoCell)

----------------------------------------------------------------------------
(* The layer panel, lines 165-171 and 547-565 *)

LayerEntry(key, label, visible) == [key |-> key, label |-> label, visible |-> visible]

InitialLayerConfig ==
  << LayerEntry("heatmap", "Risk grid", TRUE),
     LayerEntry("vehicles", "Vehicle paths", TRUE),
     LayerEntry("vehicleIcons", "Vehicle icons", TRUE),
     LayerEntry("stations", "Stations", TRUE) >>

\* next.splice(index, 1), index counted from 0
RemoveAt(arr, index) ==
  [n \in 1..(Len(arr) - 1) |-> IF n <= index THEN arr[n] ELSE arr[n + 1]]

\* next.splice(newIndex, 0, item), newIndex counted from 0
InsertAt(arr, newIndex, item) ==
  [n \in 1..(Len(arr) + 1) |->
     IF n <= newIndex THEN arr[n]
     ELSE IF n = newIndex + 1 THEN item
     ELSE arr[n - 1]]

\* what the layer panel's handlers leave unchanged
LayerFrame ==
  UNCHANGED <<mounted, clockVars, dataVars, selVars, orchVars, riskVars, viewVars,
              picked, homeVars>>

\* a move that wraps around at the two ends of the list
moveLayerAround(index, dir) ==
  /\ mounted /\ tripsLoaded
  /\ index \in 0..(Len(layerConfig) - 1)
  /\ LET newIndex == (IF dir = "up" THEN index - 1 ELSE index + 1) % Len(layerConfig)
     IN layerConfig' = InsertAt(RemoveAt(layerConfig, index), newIndex,
                                layerConfig[index + 1])
  /\ LayerFrame

\* moveLayer(index, dir) of the arrow buttons of row index, counted from 0; the
\* panel is part of the scene, which is rendered once trips are loaded
moveLayer(index, dir) ==
  /\ mounted /\ tripsLoaded
  /\ index \in 0..(Len(layerConfig) - 1)
  /\ LET newIndex == IF dir = "up" THEN index - 1 ELSE index + 1
     IN layerConfig' =
          IF newIndex < 0 \/ newIndex >= Len(layerConfig) THEN layerConfig
          ELSE InsertAt(RemoveAt(layerConfig, index), newIndex, layerConfig[index + 1])
  /\ LayerFrame

\* a checkbox that can only switch a layer off
HideEntry(prev, key) ==
  [n \in 1..Len(prev) |->
     IF prev[n].key = key THEN [prev[n] EXCEPT !.visible = FALSE] ELSE prev[n]]

\* prev.map((l) => l.key === key ? { ...l, visible: !l.visible } : l)
ToggleEntry(prev, key) ==
  [n \in 1..Len(prev) |->
     IF prev[n].key = key THEN [prev[n] EXCEPT !.visible = ~prev[n].visible]
     ELSE prev[n]]

\* toggleLayerVisibility(key) of the checkbox of a row
toggleLayerVisibility(key) ==
  /\ mounted /\ tripsLoaded
  /\ layerConfig' = ToggleEntry(layerConfig, key)
  /\ LayerFrame

\* a deck.gl layer: its id and the data it draws
Drawable(id, data) == [id |-> id, data |-> data]

LayerKeys == {"heatmap", "vehicles", "vehicleIcons", "stations"}

\* registry: the drawables behind each layer key
registry ==
  [ key \in LayerKeys |->
      CASE key = "heatmap"      -> << Drawable("risk-grid", gridCells) >>
        [] key = "vehicles"     -> << Drawable("trips", trips) >>
        [] key = "vehicleIcons" -> << Drawable("vehicle-icons", trips) >>
        [] key = "stations"     -> << Drawable("station-icons", stations) >> ]

\* ordered.push(...arr) for the visible entries of a configuration, in its order
Ordered(cfg) ==
  LET RECURSIVE upTo(_)
      upTo(n) ==
        IF n = 0 THEN <<>>
        ELSE IF ~cfg[n].visible THEN upTo(n - 1)
        ELSE IF cfg[n].key \in DOMAIN registry THEN upTo(n - 1) \o registry[cfg[n].key]
        ELSE upTo(n - 1)
  IN upTo(Len(cfg))

\* a render list that ignores the visibility flags
layersOfAll ==
  IF ~tripsLoaded THEN <<>>
  ELSE Ordered([n \in 1..Len(layerConfig) |-> [layerConfig[n] EXCEPT !.visible = TRUE]])

\* getPosition of the vehicle icons layer, for each trip in the list
vehiclePositions ==
  [k \in 1..Len(trips) |-> interpolatePosition(trips[k].path, currentTime)]

\* const layers = useMemo(...): the list handed to DeckGL
layers == IF ~tripsLoaded THEN <<>> ELSE Ordered(layerConfig)

----------------------------------------------------------------------------
(* The camera *)

\* onViewStateChange={({ viewState }) => setViewState(viewState)}
SetViewState(v) ==
  /\ mounted /\ tripsLoaded
  /\ viewState' = v
  /\ UNCHANGED <<mounted, isTilted, clockVars, dataVars, selVars, orchVars,
                 riskVars, picked,
                 layerConfig, homeVars>>
  /\ ContextEffect

\* toggleTilt
ToggleTilt ==
  /\ mounted /\ tripsLoaded
  /\ isTilted' = ~isTilted
  /\ viewState' = [viewState EXCEPT !.pitch = IF isTilted' THEN 45 ELSE 0,
                                      !.bearing = IF isTilted' THEN 30 ELSE 0]
  /\ UNCHANGED <<mounted, clockVars, dataVars, selVars, orchVars, riskVars, picked,
                 layerConfig, homeVars>>
  /\ ContextEffect

----------------------------------------------------------------------------
\* the state of a ChatPanel after its construction; abortRef is useRef(null)
NewPanel ==
  [ messages |-> <<>>, input |-> "", isStreaming |-> FALSE, error |-> Null,
    abortRef |-> Null ]

Init ==
  /\ mounted = TRUE
  /\ currentTime = 0
  /\ playing = TRUE
  /\ playbackSpeed = 2
  /\ gridCells = <<>>
  /\ trips = <<>>
  /\ tripsLoaded = FALSE
  /\ stations = <<>>
  /\ selectedTripId = Null
  /\ selectedStationId = Null
  /\ selectedCellId = NoCell
  /\ timers = <<>>
  /\ fetchSeq = 0
  /\ run = [s \in Runs |-> InitLocals]
  /\ inflight = {}
  /\ hist = [s \in Runs |-> [f \in 1..2 |-> NoAnswer]]
  /\ riskPending = TRUE
  /\ viewState = [longitude |-> -122335, latitude |-> 47615, zoom |-> 11,
                  pitch |-> 45, bearing |-> 0]
  /\ isTilted = TRUE
  /\ chatContext = Context
  /\ picked = "no click"
  /\ layerConfig = InitialLayerConfig
  /\ heap = DefaultHeap
  /\ fireStations = FIRE_STATION_INPUTS
  /\ policeStations = POLICE_STATION_INPUTS
  /\ activePanel = "vehicles"
  /\ chatOpen = FALSE
  /\ chatPanel = NewPanel
  /\ streams = {}

\* the first run of the effect of lines 215-361
MountFetch == fetchSeq = 0 /\ StartFetch

\* fireStations / policeStations change identity: the effect runs again
InputsChange == fetchSeq > 0 /\ StartFetch

\* home.tsx shows the map again (activePanel back to "vehicles"): a new
\* VehiclesMap is constructed with the lists home.tsx holds now, and its effects
\* run; the answers still owed to the instance torn down earlier change nothing,
\* so the step is taken once they have arrived
Remount ==
  /\ ~mounted
  /\ fetchSeq \in 1..(MaxSeq - 1)
  /\ \A s \in 1..fetchSeq : run[s].pc = "done"
  /\ mounted' = TRUE
  /\ currentTime' = 0
  /\ playing' = TRUE
  /\ playbackSpeed' = 2
  /\ gridCells' = <<>>
  /\ trips' = <<>>
  /\ tripsLoaded' = FALSE
  /\ stations' = <<>>
  /\ selectedTripId' = Null
  /\ selectedStationId' = Null
  /\ selectedCellId' = NoCell
  /\ timers' = <<>>
  /\ riskPending' = TRUE
  /\ viewState' = [longitude |-> -122335, latitude |-> 47615, zoom |-> 11,
                   pitch |-> 45, bearing |-> 0]
  /\ isTilted' = TRUE
  /\ picked' = "no click"
  /\ layerConfig' = InitialLayerConfig
  /\ fetchSeq' = fetchSeq + 1
  /\ run' = [run EXCEPT ![fetchSeq + 1] =
                [InitLocals EXCEPT !.pc = "deploy", !.fleetConfigs = fleetConfigs]]
  /\ inflight' = inflight \cup {Req(fetchSeq + 1, "deploy", 1, 0)}
  /\ UNCHANGED <<hist, heap, fireStations, policeStations>>
  /\ chatContext' = Context'

\* the same, once the earlier fetchAll calls have finished
Refetch ==
  /\ \A s \in 1..fetchSeq : run[s].pc = "done"
  /\ InputsChange

----------------------------------------------------------------------------
(* The home page, home.tsx lines 20-47 and 208-243, and the chat panel,
   ChatPanel.tsx lines 23-128. A ChatPanel instance exists while the map panel
   is active and chatOpen is true; a request of an instance that has been
   removed stays in flight (nothing aborts it) and its callbacks update a
   component that is gone. *)

NavKeys == {"vehicles", "stations", "chat"}

\* {activePanel === "vehicles" && (<> ... {chatOpen && (<ChatPanel ... />)} </>)}
PanelShownFor(panel, open) == panel = "vehicles" /\ open
PanelShown == PanelShownFor(activePanel, chatOpen)

\* what the home page's handlers leave unchanged in the map when it stays
MapStays ==
  UNCHANGED <<mounted, clockVars, dataVars, selVars, orchVars, riskVars, viewVars,
              picked, layerConfig>>

\* the render that follows setActivePanel(panel) and setChatOpen(open): the map
\* and the chat panel are removed or constructed as the two conditions say
Render(panel, open) ==
  /\ activePanel' = panel
  /\ chatOpen' = open
  /\ chatPanel' =
       IF PanelShownFor(panel, open) /\ ~PanelShown THEN NewPanel ELSE chatPanel
  /\ streams' =
       IF PanelShown /\ ~PanelShownFor(panel, open)
       THEN { [r EXCEPT !.live = FALSE] : r \in streams }
       ELSE streams
  /\ UNCHANGED <<heap, fireStations, policeStations>>
  /\ CASE panel = "stations" /\ mounted -> Teardown
       [] panel = "vehicles" /\ activePanel = "stations" -> Remount
       [] OTHER -> MapStays

\* a navigation that leaves the chat panel as it is when another item is chosen
handleNavClickKeepsChat(key) ==
  IF key = "chat" THEN Render("vehicles", ~chatOpen) ELSE Render(key, chatOpen)

\* handleNavClick(key), home.tsx lines 39-47
handleNavClick(key) ==
  IF key = "chat" THEN Render("vehicles", ~chatOpen) ELSE Render(key, FALSE)

\* onClose={() => setChatOpen(false)}
onClose == PanelShown /\ Render(activePanel, FALSE)

\* what the chat panel's handlers and callbacks leave unchanged
ChatFrame ==
  /\ MapStays
  /\ UNCHANGED <<heap, fireStations, policeStations, activePanel, chatOpen>>

\* the texts typed in this model
Inputs == {"", " ", "hi"}

\* input.trim() for those texts
Trim(text) == IF text = " " THEN "" ELSE text

\* onChange={(e) => setInput(e.target.value)}
setInput(text) ==
  /\ PanelShown
  /\ chatPanel' = [chatPanel EXCEPT !.input = text]
  /\ UNCHANGED streams
  /\ ChatFrame

\* the stamps Date.now() can give, as they are written into the message ids
Stamps == { ToString(n) : n \in 1..(2 * MaxExchanges + MaxStreams + 1) }

\* the stamps carried by a message of the list or by a request in flight
Stamped ==
  { chatPanel.messages[k].id : k \in 1..Len(chatPanel.messages) }
    \cup { r.id : r \in streams }

\* Date.now() of a new exchange: a stamp that is not in use
Now == CHOOSE n \in Stamps : n \notin Stamped

\* lines 42-75: the two messages are appended and the request is issued; of
\* its body the message and the view state are kept, the history (the message
\* list before the step) is left out
StartStream(trimmed) ==
  /\ Len(chatPanel.messages) < 2 * MaxExchanges
  /\ Cardinality(streams) < MaxStreams
  /\ chatPanel' =
       [ chatPanel EXCEPT
           !.error = Null,
           !.messages = @ \o << [id |-> Now, role |-> "user", content |-> trimmed],
                                [id |-> Now, role |-> "assistant", content |-> ""] >>,
           !.input = "",
           !.isStreaming = TRUE,
           !.abortRef = Now ]
  /\ streams' =
       streams \cup
         { [ id |-> Now, live |-> TRUE, assistantText |-> "", reads |-> 0,
             body |-> [message |-> trimmed, view_state |-> chatContext] ] }

\* a send that does not look at isStreaming
handleSendWhileStreaming ==
  /\ PanelShown
  /\ IF Trim(chatPanel.input) = ""
     THEN UNCHANGED <<chatPanel, streams>>
     ELSE StartStream(Trim(chatPanel.input))
  /\ ChatFrame

\* handleSend, lines 38-119, up to its first await
handleSend ==
  /\ PanelShown
  /\ IF Trim(chatPanel.input) = "" \/ chatPanel.isStreaming
     THEN UNCHANGED <<chatPanel, streams>>
     ELSE StartStream(Trim(chatPanel.input))
  /\ ChatFrame

\* finally { setIsStreaming(false); abortRef.current = null; }
Finally(panel) == [panel EXCEPT !.isStreaming = FALSE, !.abortRef = Null]

\* a data chunk is read from the stream of request r (lines 84-111)
StreamChunk(r, chunk) ==
  /\ r \in streams
  /\ r.reads < MaxChunks
  /\ streams' = (streams \ {r})
                  \cup {[r EXCEPT !.assistantText = @ \o chunk, !.reads = @ + 1]}
  /\ chatPanel' =
       IF ~r.live THEN chatPanel
       ELSE [ chatPanel EXCEPT !.messages =
                [ k \in 1..Len(chatPanel.messages) |->
                    IF chatPanel.messages[k].id = r.id
                         /\ chatPanel.messages[k].role = "assistant"
                    THEN [chatPanel.messages[k] EXCEPT
                            !.content = r.assistantText \o chunk]
                    ELSE chatPanel.messages[k] ] ]
  /\ ChatFrame

\* the stream of request r ends: reader.read() reports done
StreamDone(r) ==
  /\ r \in streams
  /\ streams' = streams \ {r}
  /\ chatPanel' = IF r.live THEN Finally(chatPanel) ELSE chatPanel
  /\ ChatFrame

\* request r fails: the fetch or a read rejects, or the status is not a success
StreamFailed(r) ==
  /\ r \in streams
  /\ streams' = streams \ {r}
  /\ chatPanel' =
       IF r.live THEN Finally([chatPanel EXCEPT !.error = "Chat stream failed"])
       ELSE chatPanel
  /\ ChatFrame

\* handleStop: abortRef.current?.abort(), and the catch and finally blocks that
\* the rejected await of handleSend runs next
handleStop ==
  /\ PanelShown
  /\ IF chatPanel.abortRef = Null
     THEN UNCHANGED <<chatPanel, streams>>
     ELSE /\ streams' = { r \in streams : ~(r.live /\ r.id = chatPanel.abortRef) }
          /\ chatPanel' = Finally([chatPanel EXCEPT !.error = "The operation was aborted"])
  /\ ChatFrame

\* handleReset
handleReset ==
  /\ PanelShown
  /\ chatPanel' = [chatPanel EXCEPT !.messages = <<>>, !.error = Null]
  /\ UNCHANGED streams
  /\ ChatFrame

----------------------------------------------------------------------------
(* One fetchAll call; the backend echoes the requested fleet *)

\* the fire fleet gets up to two moves, the police fleet up to MaxMoves
OrchMoves(f) == IF f = 2 THEN MaxMoves ELSE 2

OrchDeploy ==
  \E r \in DeployFailures
             \cup DeployAnswers({Null}, StationLists,
                                SeqsUpTo(MovePairs, OrchMoves(run[1].fleetIdx))) :
    DeployResponded(1, r)

OrchRoute ==
  \E f \in 1..2, i \in 1..MaxMoves, o \in RouteFailures \cup RouteAnswers :
    RouteResponded(1, f, i, o)

NextOrch == MountFetch \/ OrchDeploy \/ OrchRoute
SpecOrch == Init /\ [][NextOrch]_vars

----------------------------------------------------------------------------
(* One fetchAll call; the backend reports any fleet type *)

FleetDeploy ==
  \E r \in DeployFailures
             \cup DeployAnswers({Null, "fire", "police"}, StationLists,
                                SeqsUpTo(MovePairs, MaxMoves)) :
    DeployResponded(1, r)

NextFleet == MountFetch \/ FleetDeploy \/ OrchRoute
SpecFleet == Init /\ [][NextFleet]_vars

----------------------------------------------------------------------------
(* Overlapping fetchAll calls *)

FewDeploy ==
  \E s \in Runs, r \in DeployFailures \cup FewDeployAnswers : DeployResponded(s, r)

FewRoute ==
  \E s \in Runs, f \in 1..2, o \in RouteFailures \cup RoutesWith({RoutePath}) :
    RouteResponded(s, f, 1, o)

NextRefetch == MountFetch \/ InputsChange \/ FewDeploy \/ FewRoute
SpecRefetch == Init /\ [][NextRefetch]_vars

----------------------------------------------------------------------------
(* The playback clock under data refreshes *)

ClockDeploy ==
  \E s \in Runs :
    \E r \in ClockDeployAnswers(run[s].fleetIdx) : DeployResponded(s, r)

ClockRoute ==
  \E s \in Runs, f \in 1..2, o \in RoutesWith({StillPath, RoutePath}) :
    RouteResponded(s, f, 1, o)

ClockTick == \E k \in 1..Len(timers) : Tick(k)
ClockSpeed == \E v \in Speeds : SetSpeed(v)
\* the scrub positions tried: the first MaxSeek steps and the right end
SeekValues(mt) ==
  { v \in ScrubValues(mt) : v <= 2 * MaxSeek \/ v + 2 > ScrubMax(mt) }

ClockSeek == \E v \in SeekValues(maxTime) : Seek(v)

NextClock ==
  \/ MountFetch \/ Refetch \/ ClockDeploy \/ ClockRoute
  \/ ClockTick \/ TogglePlaying \/ ClockSpeed \/ ClockSeek \/ Unmount
SpecClock == Init /\ [][NextClock]_vars

----------------------------------------------------------------------------
(* Selection *)

SelDeploy == \E s \in Runs, r \in PlainDeployAnswers : DeployResponded(s, r)

SelRoute ==
  \E s \in Runs, f \in 1..2 :
    \E o \in {[status |-> "notok", points |-> <<>>]} \cup RoutesWith({RoutePath}) :
      RouteResponded(s, f, 1, o)

SelRisk == \E r \in RiskAnswers : RiskResponded(r)
SelCell == \E k \in 1..Len(gridCells) : ClickCell(k)
SelVehicle == \E k \in 1..Len(trips) : ClickVehicle(k)
SelStation == \E k \in 1..Len(stations) : ClickStation(k)

NextSel ==
  \/ MountFetch \/ Refetch \/ SelDeploy \/ SelRoute \/ SelRisk
  \/ SelCell \/ SelVehicle \/ SelStation \/ ClickBackground
SpecSel == Init /\ [][NextSel]_vars

----------------------------------------------------------------------------
(* Selection and camera under data refreshes: what the chat panel is told *)

\* a backend with no police data, whose fire fleet has either two stations and
\* the move between them or station S1 alone, at rest
ViewDeployAnswers(f) ==
  IF f = 1
  THEN PlainDeployAnswers
         \cup DeployAnswers({Null}, {<<Station("S1")>>}, {<<>>})
  ELSE { [status |-> "notok"] }

ViewDeploy ==
  \E s \in Runs :
    \E r \in ViewDeployAnswers(run[s].fleetIdx) : DeployResponded(s, r)

ViewRoute ==
  \E s \in Runs, f \in 1..2 :
    \E o \in {[status |-> "notok", points |-> <<>>]} \cup RoutesWith({RoutePath}) :
      RouteResponded(s, f, 1, o)

ViewRisk == RiskResponded([status |-> "ok", cells |-> <<[cell_id |-> 0]>>])

\* where the user can drag the map to: the next cell to the north-east, and a
\* place outside the grid
Centers == { [lat |-> 47615, lon |-> -122335], [lat |-> 47625, lon |-> -122325],
             [lat |-> 47000, lon |-> -122000] }

ViewCamera ==
  \E c \in Centers :
    SetViewState([viewState EXCEPT !.latitude = c.lat, !.longitude = c.lon])

NextView ==
  \/ MountFetch \/ Refetch \/ ViewDeploy \/ ViewRoute \/ ViewRisk
  \/ SelCell \/ SelVehicle \/ SelStation \/ ClickBackground
  \/ ViewCamera \/ ToggleTilt
SpecView == Init /\ [][NextView]_vars

----------------------------------------------------------------------------
(* One fetchAll call; the backend recommends moves between stations it did
   not return *)

StrayMoves == { Move("S1", "S2"), Move("S1", "S3"), Move("S3", "S2") }

StrayDeploy ==
  \E r \in { [status |-> "notok"] }
             \cup DeployAnswers({Null},
                                { <<Station("S1"), Station("S2")>>, <<Station("S2")>> },
                                SeqsUpTo(StrayMoves, MaxMoves)) :
    DeployResponded(1, r)

StrayRoute ==
  \E f \in 1..2, i \in 1..MaxMoves :
    \E o \in RouteFailures \cup RoutesWith({RoutePath}) :
      RouteResponded(1, f, i, o)

NextStray == MountFetch \/ StrayDeploy \/ StrayRoute
SpecStray == Init /\ [][NextStray]_vars

----------------------------------------------------------------------------
(* One fetchAll call in a large scenario: many moves per fleet, every route
   found, the route service answering in the order of the requests *)

\* n moves, to and fro between two stations
ManyMoves(n) ==
  [k \in 1..n |-> IF k % 2 = 1 THEN Move("S1", "S2") ELSE Move("S2", "S1")]

MoveCounts == {0, 1, 2, MaxFleetMoves - 1, MaxFleetMoves}

ManyDeploy ==
  \E r \in { [status |-> "notok"] }
             \cup DeployAnswers({Null}, {<<Station("S1"), Station("S2")>>},
                                { ManyMoves(n) : n \in MoveCounts }) :
    DeployResponded(1, r)

ManyRoute ==
  \E f \in 1..2, i \in 1..MaxFleetMoves :
    /\ \A k \in 1..(i - 1) : Req(1, "route", f, k) \notin inflight
    /\ RouteResponded(1, f, i, [status |-> "ok", points |-> RoutePath])

NextMany == MountFetch \/ ManyDeploy \/ ManyRoute
SpecMany == Init /\ [][NextMany]_vars

\* Editing the station inputs: the map, a visit to the editor, the map again.
\* The backend refuses every deployment request, which is enough to see what
\* each request carries.
EditDeploy ==
  \E s \in Runs : DeployResponded(s, [status |-> "notok"])

\* the editor is chosen in the sidebar, and the map again after one visit
EditNav ==
  \E key \in {"vehicles", "stations"} :
    /\ key = "vehicles" => fetchSeq = 1
    /\ handleNavClick(key)

EditTexts == { <<"station_id", "FS9">>, <<"lat", "47.62">> }

EditField ==
  \E f \in 1..2, index \in 0..1, e \in EditTexts : updateField(f, index, e[1], e[2])

EditAdd == \E f \in 1..2 : addRow(f)

EditRemove == \E f \in 1..2, index \in 0..1 : removeRow(f, index)

NextEdit ==
  \/ MountFetch
  \/ EditDeploy
  \/ EditNav
  \/ EditField
  \/ EditAdd
  \/ EditRemove

SpecEdit == Init /\ [][NextEdit]_vars

\* The risk grid cannot be loaded while the deployment is fetched. Every request
\* is answered in the end (a fetch that gets no answer rejects).
RiskFails == \E r \in RiskFailures : RiskResponded(r)

RiskDeploy ==
  \E s \in Runs, r \in DeployFailures \cup FewDeployAnswers : DeployResponded(s, r)

RiskRoute ==
  \E s \in Runs, f \in 1..2, o \in RouteFailures \cup RoutesWith({RoutePath}) :
    RouteResponded(s, f, 1, o)

NextRisk == MountFetch \/ RiskFails \/ RiskDeploy \/ RiskRoute \/ Unmount

SpecRisk ==
  /\ Init /\ [][NextRisk]_vars
  /\ WF_vars(RiskDeploy) /\ WF_vars(RiskRoute)

\* The layer panel: rows are moved and switched on and off while the scene is
\* loaded from a backend that knows two fire stations and no police data.
LayerDeploy ==
  \E s \in Runs : \E r \in ClockDeployAnswers(run[s].fleetIdx) : DeployResponded(s, r)

LayerRoute ==
  \E s \in Runs, f \in 1..2 :
    \E o \in {[status |-> "notok", points |-> <<>>]} \cup RoutesWith({RoutePath}) :
      RouteResponded(s, f, 1, o)

LayerRisk ==
  \E r \in RiskFailures \cup {[status |-> "ok", cells |-> <<[cell_id |-> 0]>>]} :
    RiskResponded(r)

LayerMove == \E index \in 0..3, dir \in {"up", "down"} : moveLayer(index, dir)

LayerToggle == \E key \in LayerKeys : toggleLayerVisibility(key)

NextLayers ==
  MountFetch \/ LayerDeploy \/ LayerRoute \/ LayerRisk \/ LayerMove \/ LayerToggle

SpecLayers == Init /\ [][NextLayers]_vars

\* Panning over the grid: the scene is loaded from a backend without deployment
\* data, the risk grid has the cell 0, and the camera is dragged from cell centre
\* to cell centre, up to GridMargin cells beyond each edge of the grid.
GridDeploy == \E s \in Runs : DeployResponded(s, [status |-> "notok"])

GridRisk == RiskResponded([status |-> "ok", cells |-> <<[cell_id |-> 0]>>])

GridLats ==
  { GRID_MIN_LAT + GRID_LAT_STEP * k + GRID_LAT_STEP \div 2 :
      k \in (0 - GridMargin)..((GRID_MAX_LAT - GRID_MIN_LAT) \div GRID_LAT_STEP
                                + GridMargin - 1) }

GridLons ==
  { GRID_MIN_LON + GRID_LON_STEP * k + GRID_LON_STEP \div 2 :
      k \in (0 - GridMargin)..((GRID_MAX_LON - GRID_MIN_LON) \div GRID_LON_STEP
                                + GridMargin - 1) }

\* a drag of the map by one cell along one axis
GridPan ==
  \E lat \in GridLats, lon \in GridLons :
    /\ \/ lat = viewState.latitude
          /\ lon \in {viewState.longitude - GRID_LON_STEP, viewState.longitude + GRID_LON_STEP}
       \/ lon = viewState.longitude
          /\ lat \in {viewState.latitude - GRID_LAT_STEP, viewState.latitude + GRID_LAT_STEP}
    /\ SetViewState([viewState EXCEPT !.latitude = lat, !.longitude = lon])

NextGrid == MountFetch \/ GridDeploy \/ GridRisk \/ GridPan \/ SelCell \/ ClickBackground

SpecGrid == Init /\ [][NextGrid]_vars

\* Vehicle positions: the backend recommends two moves between two fire
\* stations and answers each route request with one of the paths below (the
\* times are the backend's: they may repeat and need not increase); the clock
\* ticks at 0.5x or 1x and is scrubbed.
InterpPaths ==
  { << Pt(2, -122330, 47600) >>,
    << Pt(2, -122330, 47600), Pt(2, -122320, 47610) >>,
    << Pt(0, -122330, 47600), Pt(2, -122320, 47610), Pt(2, -122300, 47630),
       Pt(6, -122280, 47650) >>,
    << Pt(4, -122330, 47600), Pt(0, -122320, 47610), Pt(6, -122310, 47620) >>,
    << Pt(4, -122330, 47600), Pt(0, -122320, 47610) >>,
    << Pt(1, -122330, 47600), Pt(4, -122320, 47610) >> }

InterpDeployAnswers(f) ==
  IF f = 1
  THEN DeployAnswers({Null}, {<<Station("S1"), Station("S2")>>},
                     {<<Move("S1", "S2"), Move("S2", "S1")>>})
  ELSE { [status |-> "notok"] }

InterpDeploy ==
  \E s \in Runs :
    \E r \in InterpDeployAnswers(run[s].fleetIdx) : DeployResponded(s, r)

InterpRoute ==
  \E s \in Runs, f \in 1..2, i \in 1..2, o \in RoutesWith(InterpPaths) :
    RouteResponded(s, f, i, o)

InterpTick == \E k \in 1..Len(timers) : Tick(k)

InterpSpeed == \E v \in {1, 2} : SetSpeed(v)

InterpSeek == \E v \in SeekValues(maxTime) : Seek(v)

NextInterp ==
  MountFetch \/ InterpDeploy \/ InterpRoute \/ InterpTick \/ InterpSpeed \/ InterpSeek

SpecInterp == Init /\ [][NextInterp]_vars

\* Station ids in the snapshot: the backend knows the fire stations S1 and S2
\* or S1 and a station whose id is the empty string (the id of a row added in
\* the station editor and not filled in), and has no police data.
IdsStationLists ==
  { <<Station("S1"), Station("S2")>>, <<Station("S1"), Station("")>> }

IdsMoveLists == { <<>>, <<Move("S1", "S2")>>, <<Move("S1", "")>> }

IdsDeployAnswers(f) ==
  IF f = 1 THEN DeployAnswers({Null}, IdsStationLists, IdsMoveLists)
  ELSE { [status |-> "notok"] }

IdsDeploy ==
  \E s \in Runs :
    \E r \in IdsDeployAnswers(run[s].fleetIdx) : DeployResponded(s, r)

IdsRoute ==
  \E s \in Runs, f \in 1..2 :
    \E o \in {[status |-> "notok", points |-> <<>>]} \cup RoutesWith({RoutePath}) :
      RouteResponded(s, f, 1, o)

NextIds == MountFetch \/ Refetch \/ IdsDeploy \/ IdsRoute \/ SelStation \/ ClickBackground

SpecIds == Init /\ [][NextIds]_vars

\* Overlapping fetchAll calls whose every request is answered in the end, with
\* success, with a non-success status or by a rejection; the component may be
\* torn down at any time.
\* The fire request fails or is answered with two stations and the move between
\* them; the police request fails.
LiveDeployAnswers(f) ==
  IF f = 1
  THEN DeployFailures
         \cup DeployAnswers({Null}, {<<Station("S1"), Station("S2")>>},
                            {<<Move("S1", "S2")>>})
  ELSE DeployFailures

LiveDeploy ==
  \E s \in Runs :
    \E r \in LiveDeployAnswers(run[s].fleetIdx) : DeployResponded(s, r)

LiveRoute ==
  \E s \in Runs, f \in 1..2, o \in RouteFailures \cup RoutesWith({RoutePath}) :
    RouteResponded(s, f, 1, o)

NextLive == MountFetch \/ InputsChange \/ LiveDeploy \/ LiveRoute \/ Unmount

SpecLive ==
  /\ Init /\ [][NextLive]_vars
  /\ WF_vars(LiveDeploy) /\ WF_vars(LiveRoute)

\* The sidebar: the user moves between the map, the editor and the chat, asks
\* a question and gets the whole answer or leaves before it has come. The
\* backend has no deployment data.
HomeDeploy == \E s \in Runs : DeployResponded(s, [status |-> "notok"])

HomeNav == \E key \in NavKeys : handleNavClick(key)

HomeAsk == setInput("hi")

HomeDone == \E r \in streams : StreamDone(r)

NextHome ==
  \/ MountFetch \/ HomeDeploy \/ HomeNav \/ onClose
  \/ HomeAsk \/ handleSend \/ HomeDone

SpecHome == Init /\ [][NextHome]_vars

\* The chat panel over the map: the user opens and closes it, types, sends,
\* stops and resets, while chat requests are answered chunk by chunk, end or
\* fail.
ChatToggle == handleNavClick("chat")

ChatType == \E text \in Inputs : setInput(text)

ChatChunk == \E r \in streams : StreamChunk(r, "ok")

ChatDone == \E r \in streams : StreamDone(r)

ChatFailed == \E r \in streams : StreamFailed(r)

NextChat ==
  \/ ChatToggle \/ onClose \/ ChatType \/ handleSend
  \/ ChatChunk \/ ChatDone \/ ChatFailed \/ handleStop \/ handleReset

SpecChat == Init /\ [][NextChat]_vars

\* Refreshes of a scene in use: between two fetchAll calls the user selects
\* objects, drags the map, changes the speed, scrubs the clock (which pauses it)
\* and hides the risk grid. The fire request is answered with two stations and
\* the move between them or fails; there is no police data.
FrameDeployAnswers(f) ==
  IF f = 1
  THEN { [status |-> "reject"] }
         \cup DeployAnswers({Null}, {<<Station("S1"), Station("S2")>>},
                            {<<Move("S1", "S2")>>})
  ELSE { [status |-> "notok"] }

FrameDeploy ==
  \E s \in Runs :
    \E r \in FrameDeployAnswers(run[s].fleetIdx) : DeployResponded(s, r)

FrameRoute ==
  \E s \in Runs, f \in 1..2, o \in RoutesWith({RoutePath}) : RouteResponded(s, f, 1, o)

FrameCamera ==
  SetViewState([viewState EXCEPT !.latitude = 47625, !.longitude = -122325])

FrameSpeed == SetSpeed(4)

FrameSeek == Seek(2)

FrameToggle == toggleLayerVisibility("heatmap")

NextFrame ==
  \/ MountFetch \/ Refetch \/ FrameDeploy \/ FrameRoute \/ ViewRisk
  \/ SelCell \/ SelVehicle \/ SelStation
  \/ FrameCamera \/ FrameSpeed \/ FrameSeek \/ FrameToggle

SpecFrame == Init /\ [][NextFrame]_vars

----------------------------------------------------------------------------
(* Properties *)

Started(s) == s \in 1..fetchSeq
Done(s) == Started(s) /\ run[s].pc = "done"

\* the fetchAll call ended in its catch block
Caught(s) ==
  \E f \in 1..2 :
    \/ hist[s][f].dep = "reject"
    \/ \E k \in 1..Len(hist[s][f].routes) : hist[s][f].routes[k] = "reject"

ResultStations(s) == IF Caught(s) THEN <<>> ELSE run[s].allStations
ResultTrips(s) ==
  IF Caught(s) \/ Len(run[s].allTrips) = 0 THEN SAMPLE_TRIPS ELSE run[s].allTrips

RECURSIVE OkIndicesFrom(_, _)
\* the indices, ascending from k, of the moves whose route was answered with success
OkIndicesFrom(routes, k) ==
  IF k > Len(routes) THEN <<>>
  ELSE IF routes[k] = "ok" THEN <<k>> \o OkIndicesFrom(routes, k + 1)
  ELSE OkIndicesFrom(routes, k + 1)

OkIndices(h) == OkIndicesFrom(h.routes, 1)
OkMoves(h) == [n \in 1..Len(OkIndices(h)) |-> h.moves[OkIndices(h)[n]]]
IdsOf(sts) == [k \in 1..Len(sts) |-> sts[k].station_id]
Endpoints(tr) ==
  [k \in 1..Len(tr) |-> Move(tr[k].fromStationId, tr[k].toStationId)]
TripIds(tr) == [k \in 1..Len(tr) |-> tr[k].id]

DeployFailed(h) == h.dep \in {"notok", "reject"}
NoRouteRejected(s) ==
  \A f \in 1..2 : \A k \in 1..Len(hist[s][f].routes) : hist[s][f].routes[k] # "reject"
SomeRouteFailed(s) ==
  \E f \in 1..2 : \E k \in 1..Len(hist[s][f].routes) :
    hist[s][f].routes[k] \in {"notok", "reject"}

\* the trip list shows exactly these moves, or the fallback when there are none
TripsShow(moves) ==
  IF Len(moves) = 0 THEN trips = SAMPLE_TRIPS ELSE Endpoints(trips) = moves

\* C1: once the most recently started fetch sequence has finished, stations and
\* trips are its results: no earlier sequence's late results overwrite them.
C1_LatestSequenceWins ==
  Done(fetchSeq) =>
    /\ stations = ResultStations(fetchSeq)
    /\ trips = ResultTrips(fetchSeq)

\* C2: when one fleet's deployment fetch fails (non-success response or failed
\* request) and the other's succeeds, then after the run the station list and
\* the trip list hold exactly the succeeding fleet's stations and trips.
C2_OnlySucceedingFleet ==
  \A a \in 1..2 :
    LET b == 3 - a IN
      ( /\ Done(1)
        /\ DeployFailed(hist[1][a])
        /\ hist[1][b].dep = "ok"
        /\ NoRouteRejected(1) )
      => /\ IdsOf(stations) = IdsOf(hist[1][b].stations)
         /\ TripsShow(OkMoves(hist[1][b]))

\* C3: a route request that fails (non-success response or failed request)
\* removes only its own move's trip: after the run the station list holds the
\* stations of every fleet whose deployment succeeded and the trip list holds
\* one trip for every move whose route request succeeded.
C3_RouteFailureIsLocal ==
  ( /\ Done(1)
    /\ SomeRouteFailed(1)
    /\ \A f \in 1..2 : hist[1][f].dep \in {"ok", "notok"} )
  => /\ IdsOf(stations) = IdsOf(hist[1][1].stations) \o IdsOf(hist[1][2].stations)
     /\ TripsShow(OkMoves(hist[1][1]) \o OkMoves(hist[1][2]))

\* C4: a fetch sequence that finishes having produced zero trips sets the trip
\* list to exactly the fallback trip 'veh_101'; from the first finished
\* sequence on the trip list is never null and never empty.
C4_FallbackNeverEmpty ==
  /\ [](( \E s \in Runs : Done(s) ) => (tripsLoaded /\ Len(trips) > 0))
  /\ [](tripsLoaded => Len(trips) > 0)
  /\ [][ \A s \in Runs :
           ( /\ run[s].pc # "done"
             /\ run'[s].pc = "done"
             /\ Len(run'[s].allTrips) = 0 )
           => ( /\ Len(trips') = 1
                /\ trips'[1].id = "veh_101"
                /\ trips' = SAMPLE_TRIPS ) ]_vars

\* a deployment succeeded, no trip came of it, and the fallback is shown
C4_Witness ==
  \E s \in Runs :
    /\ Done(s) /\ ~Caught(s)
    /\ hist[s][1].dep = "ok"
    /\ Len(run[s].allStations) > 0
    /\ Len(run[s].allTrips) = 0
    /\ trips = SAMPLE_TRIPS

\* C5: at most one of selectedTripId, selectedStationId and selectedCellId is
\* non-null in every reachable state.
C5_SelectionExclusive ==
  (IF selectedTripId # Null THEN 1 ELSE 0)
    + (IF selectedStationId # Null THEN 1 ELSE 0)
    + (IF selectedCellId # NoCell THEN 1 ELSE 0) <= 1

\* a vehicle is selected while stations and cells are there to be clicked
C5_Witness ==
  /\ selectedTripId # Null
  /\ Len(stations) > 0
  /\ Len(gridCells) > 0

\* C6: once trips have loaded, 0 <= currentTime <= maxTime.
C6_TimeWithinMax ==
  tripsLoaded => (0 <= currentTime /\ currentTime <= maxTime)

\* C7: at most one interval is active; none is active after teardown, while
\* paused or while maxTime is 0; the active interval is the one created for the
\* current playing, maxTime and playbackSpeed.
C7_SingleTickSource ==
  /\ Len(timers) <= 1
  /\ (~mounted \/ ~playing \/ maxTime = 0) => timers = <<>>
  /\ timers # <<>> =>
       timers[1] = [maxTime |-> maxTime, playbackSpeed |-> playbackSpeed]

\* the interval was created anew after the speed and the trip set had changed
C7_Witness ==
  /\ Len(timers) = 1
  /\ timers[1].playbackSpeed = 8
  /\ timers[1].maxTime = 4
  /\ currentTime > 0

\* C8: whatever the order in which the route responses arrive, the trips of a
\* fleet appear in the order of their moves, each with its move's index as id
\* suffix, and the fire fleet's trips precede the police fleet's.
C8_TripsInMoveOrder ==
  (Done(1) /\ ~Caught(1) /\ Len(run[1].allTrips) > 0) =>
    LET ids(f) ==
          [ n \in 1..Len(OkIndices(hist[1][f])) |->
              TripId(FleetOrder[f],
                     hist[1][f].moves[OkIndices(hist[1][f])[n]],
                     OkIndices(hist[1][f])[n] - 1) ]
    IN /\ TripIds(trips) = ids(1) \o ids(2)
       /\ Endpoints(trips) = OkMoves(hist[1][1]) \o OkMoves(hist[1][2])

\* both routes of the police fleet succeeded, the second answered first
C8_Witness ==
  /\ Done(1)
  /\ run[1].completed = <<2, 1>>
  /\ hist[1][2].routes = <<"ok", "ok">>
  /\ Len(trips) > 2

\* C9: the police deployment request is issued only after the fire deployment
\* response has been handled and every fire route request has completed.
C9_FleetsSequential ==
  \A s \in Runs :
    ( Req(s, "deploy", 2, 0) \in inflight \/ hist[s][2].dep # "none" )
    => /\ hist[s][1].dep \in {"ok", "notok"}
       /\ \A k \in 1..MaxMoves : Req(s, "route", 1, k) \notin inflight
       /\ \A k \in 1..Len(hist[s][1].routes) : hist[s][1].routes[k] # "pending"

\* the police request is in flight after two fire routes were in flight together
C9_Witness ==
  /\ Req(1, "deploy", 2, 0) \in inflight
  /\ hist[1][1].routes = <<"ok", "notok">>

\* C10: the trips of one fetch sequence have pairwise distinct ids.
C10_TripIdsDistinct ==
  tripsLoaded =>
    \A i, j \in 1..Len(trips) : trips[i].id = trips[j].id => i = j

\* the station ids that a deployment response names as an endpoint of a move
MoveEndpointIds(h) ==
  { h.moves[k].from_station_id : k \in 1..Len(h.moves) }
    \cup { h.moves[k].to_station_id : k \in 1..Len(h.moves) }

\* the position in the station list of the k-th station of fleet f's response
StationIndex(s, f, k) ==
  (IF f = 1 THEN 0 ELSE Len(hist[s][1].stations)) + k

\* C11: after a finished fetch sequence a station's inMove flag is true if and
\* only if its id is the from- or to-endpoint of some move in the deployment
\* response that returned that station.
C11_InMoveIffOwnMove ==
  (Done(1) /\ ~Caught(1)) =>
    \A f \in 1..2 : \A k \in 1..Len(hist[1][f].stations) :
      stations[StationIndex(1, f, k)].inMove
        <=> hist[1][f].stations[k].station_id \in MoveEndpointIds(hist[1][f])

\* move k of fleet f's response names a station that the response did not return
Unknown(h, k) ==
  \/ h.moves[k].from_station_id \notin StationIdsOf(h.stations)
  \/ h.moves[k].to_station_id \notin StationIdsOf(h.stations)

\* C12: a move is resolved against the station list of its own deployment
\* response: a move with either endpoint absent from that list issues no route
\* request and yields no trip, and the other moves of the fleet still yield
\* their trips.
C12_UnknownStationSkipsMove ==
  \A f \in 1..2 :
    LET h == hist[1][f] IN
      \A k \in 1..Len(h.moves) :
        Unknown(h, k) =>
          /\ Req(1, "route", f, k) \notin inflight
          /\ h.routes[k] = "null"
          /\ (Done(1) /\ ~Caught(1)) =>
               /\ \A n \in 1..Len(trips) :
                    trips[n].id # TripId(FleetOrder[f], h.moves[k], k - 1)
               /\ \A j \in 1..Len(h.moves) :
                    h.routes[j] = "ok" =>
                      \E n \in 1..Len(trips) :
                        /\ trips[n].id = TripId(FleetOrder[f], h.moves[j], j - 1)
                        /\ trips[n].fromStationId = h.moves[j].from_station_id
                        /\ trips[n].toStationId = h.moves[j].to_station_id

\* the police response returned S2 only: its move S1->S2 was skipped although
\* the fire response had returned S1, and its sibling move was not
C12_Witness ==
  /\ Done(1) /\ ~Caught(1)
  /\ IdsOf(hist[1][1].stations) = <<"S1", "S2">>
  /\ IdsOf(hist[1][2].stations) = <<"S2">>
  /\ hist[1][1].moves = <<Move("S3", "S2"), Move("S1", "S2")>>
  /\ hist[1][1].routes = <<"null", "ok">>
  /\ hist[1][2].moves = <<Move("S1", "S2")>>
  /\ TripIds(trips) = <<"fire_S1_S2_1">>

\* C13: every trip in the trip list has a non-empty path in every reachable
\* state; a successful route response with an empty points list yields no trip.
C13_PathsNonEmpty ==
  tripsLoaded => \A k \in 1..Len(trips) : Len(trips[k].path) > 0

\* C14: a move whose from- and to-station ids are identical is dropped and
\* yields no trip; when a deployment's only move is such a self-move the run
\* yields zero trips and the trip list is the fallback trip.
C14_SelfMoveDropped ==
  /\ tripsLoaded =>
       \A k \in 1..Len(trips) :
         trips[k].fromStationId = Null \/ trips[k].fromStationId # trips[k].toStationId
  /\ ( /\ Done(1) /\ ~Caught(1)
       /\ \A f \in 1..2 : \A k \in 1..Len(hist[1][f].moves) :
            hist[1][f].moves[k].from_station_id = hist[1][f].moves[k].to_station_id )
     => (Len(run[1].allTrips) = 0 /\ trips = SAMPLE_TRIPS)

\* the current trip list, empty while the trips have not loaded
CurrentTrips == IF tripsLoaded THEN trips ELSE <<>>

\* the positions of the current trips that carry both station ids
Carrying ==
  { k \in 1..Len(CurrentTrips) :
      /\ CurrentTrips[k].fromStationId \notin {Null, ""}
      /\ CurrentTrips[k].toStationId \notin {Null, ""} }

\* the n-th of them in trip-list order
NthCarrying(n) ==
  CHOOSE k \in Carrying : Cardinality({ j \in Carrying : j <= k }) = n

\* C15: in every published snapshot deployment.moves is exactly the first 20,
\* in trip-list order, of the current trips that carry both a from- and a
\* to-station id, each reduced to from, to and fleet type; a trip without
\* endpoints, the fallback trip in particular, never appears, and moves has at
\* most 20 entries.
C15_MovesFirstTwenty ==
  LET m == chatContext.deployment.moves IN
    /\ Len(m) <= 20
    /\ Len(m) = IF Cardinality(Carrying) < 20 THEN Cardinality(Carrying) ELSE 20
    /\ \A n \in 1..Len(m) :
         /\ m[n] = [ from_station_id |-> CurrentTrips[NthCarrying(n)].fromStationId,
                     to_station_id   |-> CurrentTrips[NthCarrying(n)].toStationId,
                     fleet_type      |-> CurrentTrips[NthCarrying(n)].fleet_type ]
         /\ m[n].from_station_id # Null /\ m[n].to_station_id # Null
    /\ trips = SAMPLE_TRIPS => m = <<>>

\* more than 20 trips carry endpoints: the snapshot holds the first 20, all of
\* the fire fleet, the 20th being the last fire trip but one
C15_Witness ==
  /\ Done(1)
  /\ Len(trips) > MaxFleetMoves
  /\ Cardinality(Carrying) = Len(trips)
  /\ trips[Len(trips)].fleet_type = "police"
  /\ Len(chatContext.deployment.moves) = 20
  /\ chatContext.deployment.moves[20] =
       [from_station_id |-> "S2", to_station_id |-> "S1", fleet_type |-> "fire"]

\* some fetchAll call reaches its setCurrentTime(0) in this step
FetchCompletes == \E s \in Runs : run[s].pc # "done" /\ run'[s].pc = "done"

\* C16: a manual seek to v sets currentTime to v and pauses the clock, and
\* currentTime then keeps its value, however many tick intervals elapse, until
\* Play is pressed, a fetch sequence completes or the control is moved again.
\* (A seek to v is a step of Seek(v); it leaves v in currentTime, so v is the
\* value of currentTime after the step.)
C16_SeekHoldsTime ==
  [][ LET v == currentTime' IN
        /\ Seek(v) => (~playing' /\ timers' = <<>>)
        /\ (~playing /\ v # currentTime) => (FetchCompletes \/ Seek(v)) ]_vars

\* the clock rests at the right end of the scrub control, where no tick leads
C16_Witness ==
  /\ mounted /\ tripsLoaded /\ ~playing
  /\ trips = SAMPLE_TRIPS
  /\ currentTime = ScrubMax(maxTime)
  /\ timers = <<>>
  /\ playbackSpeed = 8

\* C17: a click whose hit-test finds no object sets selectedTripId,
\* selectedStationId and selectedCellId all to null, whatever was selected.
C17_BackgroundClears ==
  picked = "nothing" =>
    /\ selectedTripId = Null
    /\ selectedStationId = Null
    /\ selectedCellId = NoCell

\* the last click hit nothing, with a vehicle, stations and cells on the map
C17_Witness ==
  /\ picked = "nothing"
  /\ selectedTripId = Null /\ selectedStationId = Null /\ selectedCellId = NoCell
  /\ Len(trips) > 0 /\ trips # SAMPLE_TRIPS
  /\ Len(stations) > 0
  /\ Len(gridCells) > 0

\* C18: after every change of a selection id, the camera pose, the station
\* list or the trip list a snapshot is published whose every field is computed
\* from the current state, so the consumer's latest snapshot, the one the chat
\* panel sends as view_state, is the projection of the current state.
C18_SnapshotIsCurrent ==
  /\ chatContext.map =
       [ center  |-> [lat |-> viewState.latitude, lon |-> viewState.longitude],
         zoom    |-> viewState.zoom,
         pitch   |-> viewState.pitch,
         bearing |-> viewState.bearing ]
  /\ chatContext.selected_cell_id = selectedCellId
  /\ chatContext = Context

\* the snapshot shows the second run's lists, a station selected among them
\* and a camera that has been dragged and flattened
C18_Witness ==
  /\ Done(2)
  /\ Len(run[1].allStations) = 1
  /\ chatContext.deployment.station_ids = <<"S1", "S2">>
  /\ Len(chatContext.deployment.moves) = 1
  /\ chatContext.selected_station # None
  /\ chatContext.map.center.lat = 47625
  /\ chatContext.map.pitch = 0
  /\ chatContext.focused_cell_id = latLonToCellId(47625, -122325)

\* C19: selection is resolved against the current lists on every read: after a
\* data refresh the resolved selected trip (station) is non-null only if an
\* entry with the selected id is in the current trip (station) list, and the
\* snapshot's selected_trip / selected_station carry the fields of that current
\* entry, never those of an entry of a replaced list.
C19_SelectionResolvedNow ==
  /\ selectedTrip # None =>
       \E k \in 1..Len(CurrentTrips) :
         CurrentTrips[k].id = selectedTripId /\ selectedTrip[1] = CurrentTrips[k]
  /\ selectedStation # None =>
       \E k \in 1..Len(stations) :
         stations[k].station_id = selectedStationId /\ selectedStation[1] = stations[k]
  /\ chatContext.selected_trip # None =>
       \E k \in 1..Len(CurrentTrips) :
         /\ CurrentTrips[k].id = selectedTripId
         /\ chatContext.selected_trip[1] =
              [ id              |-> CurrentTrips[k].id,
                fleet_type      |-> CurrentTrips[k].fleet_type,
                from_station_id |-> CurrentTrips[k].fromStationId,
                to_station_id   |-> CurrentTrips[k].toStationId ]
  /\ chatContext.selected_station # None =>
       \E k \in 1..Len(stations) :
         /\ stations[k].station_id = selectedStationId
         /\ chatContext.selected_station[1] =
              [ station_id |-> stations[k].station_id,
                name       |-> stations[k].name,
                fleet_type |-> stations[k].fleet_type,
                lat        |-> stations[k].lat,
                lon        |-> stations[k].lon,
                in_move    |-> stations[k].inMove ]

\* station S1 was in a move in the first run's list and is at rest in the
\* second run's, which is the current one
C19_Witness ==
  /\ Done(2)
  /\ selectedStationId = "S1"
  /\ Len(run[1].allStations) = 2
  /\ run[1].allStations[1].station_id = "S1"
  /\ run[1].allStations[1].inMove
  /\ Len(stations) = 1
  /\ chatContext.selected_station # None
  /\ ~chatContext.selected_station[1].in_move

\* the selected trip is not in the current list: it resolves to null
C19_WitnessGone ==
  /\ Done(2)
  /\ selectedTripId = "fire_S1_S2_0"
  /\ trips = SAMPLE_TRIPS
  /\ chatContext.selected_trip = None

\* the station list and the trip list are both what fetchAll call s produced
ListsOf(s) ==
  /\ Done(s)
  /\ tripsLoaded
  /\ stations = ResultStations(s)
  /\ trips = ResultTrips(s)

\* C20: in every observable state the station list and the trip list are the
\* result of the same fetch sequence; in no state has one been replaced by a
\* run's result while the other still holds the previous run's. The same holds
\* of the lists in the published snapshot.
C20_ListsReplacedTogether ==
  /\ \/ (~tripsLoaded /\ stations = <<>>)
     \/ \E s \in Runs : ListsOf(s)
  /\ chatContext.deployment.station_ids = IdsOf(stations)
  /\ Len(chatContext.deployment.moves) =
       Cardinality({ k \in 1..Len(CurrentTrips) : CurrentTrips[k].fromStationId # Null })

\* two runs have finished with different stations and different trips, and both
\* lists are the second run's
C20_Witness ==
  /\ Done(1) /\ ListsOf(2)
  /\ ~Caught(1) /\ ~Caught(2)
  /\ IdsOf(ResultStations(1)) # IdsOf(ResultStations(2))
  /\ Endpoints(ResultTrips(1)) # Endpoints(ResultTrips(2))
  /\ Len(chatContext.deployment.moves) = 2

\* C21: every edit made in the station editor is used by the next optimization:
\* each deployment request the map sends carries, for its fleet, the station
\* list home.tsx holds for that fleet when the fetch sequence starts, row for
\* row and field for field (fire list in the fire request, police list in the
\* police request). The editor is shown only while the map is not, so the
\* requests of the map on screen are those of the sequence that follows the edits.
C21_EditsReachRequests ==
  [][ \A s \in Runs, f \in 1..2 :
        ( /\ mounted'
          /\ Req(s, "deploy", f, 0) \notin inflight
          /\ Req(s, "deploy", f, 0) \in inflight' )
          => /\ DeployBody(s, f)'.fleet_type = FleetOrder[f]
             /\ DeployBody(s, f)'.stations = Deref(TableList(f))' ]_vars

\* the second fetch sequence asks for the police fleet with an edited police
\* list (a renamed default row and an added row) after the fire row was removed
C21_Witness ==
  /\ mounted
  /\ Req(2, "deploy", 2, 0) \in inflight
  /\ fireStations = <<>>
  /\ Len(policeStations) = 2
  /\ heap[POLICE_STATION_INPUTS[1]].station_id = "FS9"
  /\ DeployBody(2, 2).stations = Deref(policeStations)
  /\ DeployBody(2, 1).stations = <<>>

\* the step in which the risk fetch ends
RiskSettles == riskPending /\ ~riskPending'

\* C22: a failed risk-grid fetch (non-success response or failed request)
\* leaves the grid cell list empty and is not fatal: the step changes neither
\* the station list nor the trip list nor anything of the deployment fetch
\* sequence, and that sequence still runs to completion
C22_RiskFailureNotFatal ==
  /\ [][ RiskSettles => /\ gridCells' = <<>>
                        /\ UNCHANGED <<stations, trips, tripsLoaded, orchVars>> ]_vars
  /\ [](~riskPending => gridCells = <<>>)
  /\ ((Started(1) /\ ~riskPending) ~> Done(1))

\* the risk fetch has failed, and the first sequence has finished and shows
\* the fire fleet's stations and its trip
C22_Witness ==
  /\ ~riskPending
  /\ gridCells = <<>>
  /\ hist[1][1].dep = "ok"
  /\ Done(1)
  /\ Len(stations) > 0
  /\ \E k \in 1..Len(trips) : trips[k].id = TripId(FleetOrder[1], Move("S1", "S2"), 0)

\* C23: each tick happens while the clock is running and maxTime > 0; it sets
\* time to time + speed, with the speed selected at that moment, or to exactly
\* 0 when time + speed >= maxTime, and leaves the clock running; maxTime is the
\* largest last-point time of the current trips, and while it is 0 there is no
\* tick that could change the time
C23_TickAdvancesOrLoops ==
  /\ [][ \A k \in 1..Len(timers) :
          Tick(k) => /\ playing /\ maxTime > 0
                     /\ currentTime' = IF currentTime + playbackSpeed >= maxTime
                                       THEN 0
                                       ELSE currentTime + playbackSpeed
                     /\ playing' /\ timers' = timers ]_vars
  /\ [](maxTime = 0 => timers = <<>>)

\* the clock runs at 0.5x and a tick has moved it to half a second
C23_Witness ==
  /\ playing /\ timers # <<>>
  /\ playbackSpeed = 1
  /\ currentTime = 1

\* where the entry with a key stands in a layer list, and whether it is shown
PlaceOf(cfg, key) == CHOOSE n \in 1..Len(cfg) : cfg[n].key = key
VisibleIn(cfg, key) == cfg[PlaceOf(cfg, key)].visible

\* C24: moveLayer(index, up|down) exchanges the entry at index with its
\* neighbour in that direction and changes nothing else; moving the first
\* entry up or the last entry down leaves the list unchanged; no entry's
\* visibility flag is changed by a move
C24_MoveSwapsNeighbours ==
  [][ \A index \in 0..(Len(layerConfig) - 1), dir \in {"up", "down"} :
        moveLayer(index, dir) =>
          LET to == IF dir = "up" THEN index - 1 ELSE index + 1 IN
          /\ Len(layerConfig') = Len(layerConfig)
          /\ IF to < 0 \/ to > Len(layerConfig) - 1
             THEN layerConfig' = layerConfig
             ELSE /\ layerConfig'[to + 1] = layerConfig[index + 1]
                  /\ layerConfig'[index + 1] = layerConfig[to + 1]
                  /\ \A n \in 1..Len(layerConfig) \ {index + 1, to + 1} :
                       layerConfig'[n] = layerConfig[n]
          /\ \A key \in LayerKeys :
               VisibleIn(layerConfig', key) = VisibleIn(layerConfig, key)
          /\ UNCHANGED <<trips, stations, gridCells, selVars, currentTime>> ]_vars

\* the hidden risk grid has been moved from the first place to the last, past
\* the three visible layers
C24_Witness ==
  /\ TripIds(trips) # <<>>
  /\ [n \in 1..4 |-> layerConfig[n].key]
       = <<"vehicles", "vehicleIcons", "stations", "heatmap">>
  /\ [n \in 1..4 |-> layerConfig[n].visible] = <<TRUE, TRUE, TRUE, FALSE>>

\* the places of the visible entries of the layer list, and the i-th of them
VisiblePlaces == { n \in 1..Len(layerConfig) : layerConfig[n].visible }
NthVisible(i) ==
  CHOOSE n \in VisiblePlaces : Cardinality({ m \in VisiblePlaces : m <= n }) = i

\* the drawable of a layer key and the data behind it
DrawableOf(key) ==
  CASE key = "heatmap"      -> [id |-> "risk-grid", data |-> gridCells]
    [] key = "vehicles"     -> [id |-> "trips", data |-> trips]
    [] key = "vehicleIcons" -> [id |-> "vehicle-icons", data |-> trips]
    [] key = "stations"     -> [id |-> "station-icons", data |-> stations]

RenderListIsVisibleLayers ==
  /\ Len(layers) = Cardinality(VisiblePlaces)
  /\ \A i \in 1..Len(layers) : layers[i] = DrawableOf(layerConfig[NthVisible(i)].key)

\* C25, as stated: the render list is, for every layer configuration, exactly
\* the drawables of the visible layers in layer-list order: no drawable of a
\* hidden layer is in it and no visible layer is missing from it, also when a
\* layer has no backing data
C25_RenderListAlways == RenderListIsVisibleLayers

\* C25, amended: once the trip list has been loaded, the render list is exactly
\* the drawables of the visible layers in layer-list order, also when a layer's
\* data is empty; before that the render list is empty whatever the layer
\* configuration says
C25_RenderListOnceLoaded ==
  IF tripsLoaded THEN RenderListIsVisibleLayers ELSE layers = <<>>

\* the stations are hidden, the vehicle icons have been moved below the risk
\* grid, which has no cells, and the render list has the three visible layers
C25_Witness ==
  /\ tripsLoaded /\ ~riskPending /\ gridCells = <<>>
  /\ [n \in 1..4 |-> layerConfig[n].key]
       = <<"vehicleIcons", "heatmap", "vehicles", "stations">>
  /\ [n \in 1..4 |-> layerConfig[n].visible] = <<TRUE, TRUE, TRUE, FALSE>>
  /\ [i \in 1..Len(layers) |-> layers[i].id] = <<"vehicle-icons", "risk-grid", "trips">>

\* the camera centre, the point latLonToCellId is applied to
CenterLat == viewState.latitude
CenterLon == viewState.longitude

StrictlyInside(lat, lon) ==
  /\ GRID_MIN_LAT < lat /\ lat < GRID_MAX_LAT
  /\ GRID_MIN_LON < lon /\ lon < GRID_MAX_LON

Outside(lat, lon) ==
  \/ lat < GRID_MIN_LAT \/ lat > GRID_MAX_LAT
  \/ lon < GRID_MIN_LON \/ lon > GRID_MAX_LON

\* C26: for every point strictly inside the grid bounds, latLonToCellId returns
\* row * numColumns + column with row = floor((lat - minLat) / latStep) and
\* column = floor((lon - minLon) / lonStep), a value in [0, rows * cols); for
\* every point outside the bounds it returns none
C26_CellIdInsideNoneOutside ==
  LET row    == (CenterLat - GRID_MIN_LAT) \div GRID_LAT_STEP
      column == (CenterLon - GRID_MIN_LON) \div GRID_LON_STEP
      id     == latLonToCellId(CenterLat, CenterLon)
  IN /\ StrictlyInside(CenterLat, CenterLon)
          => id = row * nLon + column /\ id \in 0..(nLat * nLon - 1)
     /\ Outside(CenterLat, CenterLon) => id = NoCell

\* the coordinates of a path point, as interpolatePosition returns them
At(p) == <<Whole(p.lon), Whole(p.lat)>>

\* the trips whose path has a point
WithPath == { k \in 1..Len(trips) : Len(trips[k].path) > 0 }
FirstPt(k) == trips[k].path[1]
LastPt(k) == trips[k].path[Len(trips[k].path)]

\* C27, as stated: for every non-empty path and every t at or before the first
\* point's time, interpolatePosition returns exactly the first point's
\* coordinates; for every t at or after the last point's time it returns exactly
\* the last point's coordinates; a single-point path returns that point for all t
C27_ClampsAtBothEnds ==
  \A k \in WithPath :
    /\ currentTime <= FirstPt(k).time => vehiclePositions[k] = At(FirstPt(k))
    /\ currentTime >= LastPt(k).time => vehiclePositions[k] = At(LastPt(k))
    /\ Len(trips[k].path) = 1 => vehiclePositions[k] = At(FirstPt(k))

\* C27, amended: for every non-empty path, interpolatePosition returns exactly
\* the first point's coordinates for every t at or before the first point's
\* time, and exactly the last point's coordinates for every t after the first
\* point's time that is at or after the last point's time; a single-point path
\* returns that point for all t
C27_ClampsFirstEndFirst ==
  \A k \in WithPath :
    /\ currentTime <= FirstPt(k).time => vehiclePositions[k] = At(FirstPt(k))
    /\ (currentTime > FirstPt(k).time /\ currentTime >= LastPt(k).time)
         => vehiclePositions[k] = At(LastPt(k))
    /\ Len(trips[k].path) = 1 => vehiclePositions[k] = At(FirstPt(k))

\* at time 6 (3 s) one vehicle has a single point, which lies in the past, and
\* stands on it; the other is at the end of its four-point path and stands on
\* the last point
C27_Witness ==
  /\ currentTime = 6
  /\ Len(trips) = 2
  /\ Len(trips[1].path) = 1 /\ FirstPt(1).time < currentTime
  /\ vehiclePositions[1] = At(FirstPt(1))
  /\ Len(trips[2].path) = 4 /\ FirstPt(2).time < currentTime
  /\ LastPt(2).time = currentTime
  /\ At(FirstPt(2)) # At(LastPt(2))
  /\ vehiclePositions[2] = At(LastPt(2))

\* segment i of a path (from its i-th point to the next) brackets the time t
Brackets(path, i, t) == path[i].time <= t /\ t <= path[i + 1].time

\* the number x is a + (b - a) * (t - t0) / (t1 - t0)
IsLerp(x, a, b, t, t0, t1) ==
  /\ t1 > t0
  /\ x.den > 0
  /\ x.num * (t1 - t0) = x.den * (a * (t1 - t0) + (b - a) * (t - t0))

\* C28: for every path and every t strictly between the first and the last
\* point's times, interpolatePosition returns the linear interpolation of
\* longitude and latitude, at fraction (t - t0) / (t1 - t0), on the first segment
\* in path order whose endpoint times t0 <= t <= t1 bracket t, also when several
\* points share a timestamp
C28_LinearOnFirstBracket ==
  \A k \in WithPath :
    LET path == trips[k].path
        t    == currentTime
    IN (FirstPt(k).time < t /\ t < LastPt(k).time)
         => \E i \in 1..(Len(path) - 1) :
              /\ Brackets(path, i, t)
              /\ \A j \in 1..(i - 1) : ~Brackets(path, j, t)
              /\ IsLerp(vehiclePositions[k][1], path[i].lon, path[i + 1].lon,
                        t, path[i].time, path[i + 1].time)
              /\ IsLerp(vehiclePositions[k][2], path[i].lat, path[i + 1].lat,
                        t, path[i].time, path[i + 1].time)

\* at time 3 (1.5 s) a vehicle whose path has two points with the timestamp 2
\* is a quarter of the way from the second of them to the last point
C28_Witness ==
  \E k \in WithPath :
    /\ currentTime = 3
    /\ Len(trips[k].path) = 4
    /\ trips[k].path[2].time = trips[k].path[3].time
    /\ vehiclePositions[k] = <<Whole(-122295), Whole(47635)>>

\* at time 2 a vehicle is a third of the way along its only segment, at a
\* longitude that is not a whole count of thousandths of a degree
C28_WitnessThird ==
  \E k \in WithPath :
    /\ currentTime = 2
    /\ Len(trips[k].path) = 2
    /\ vehiclePositions[k][1] = [num |-> -366980, den |-> 3]

\* C29: in every published snapshot, focused_cell_id is the selected cell id
\* when a cell is selected (cell id 0 included), otherwise the id of the grid
\* cell under the current camera centre as computed by latLonToCellId, and null
\* when the camera centre is outside the grid bounds
C29_FocusedCell ==
  /\ selectedCellId # NoCell => chatContext.focused_cell_id = selectedCellId
  /\ selectedCellId = NoCell
       => chatContext.focused_cell_id = latLonToCellId(CenterLat, CenterLon)
  /\ (selectedCellId = NoCell /\ Outside(CenterLat, CenterLon))
       => chatContext.focused_cell_id = NoCell

\* the stations of the current list whose inMove flag is true, in list order
MovingPlaces == { k \in 1..Len(stations) : stations[k].inMove }

\* the ids of the stations at a set of places of the list, in list order
IdsAt(places) ==
  [ i \in 1..Cardinality(places) |->
      stations[CHOOSE k \in places :
                 Cardinality({ j \in places : j <= k }) = i].station_id ]

\* C30, as stated: in every published snapshot, deployment.station_ids is the
\* list of station ids of all stations in the current station list, and
\* deployment.moving_station_ids is exactly the ids of those stations whose
\* inMove flag is true
C30_AllStationIds ==
  /\ chatContext.deployment.station_ids = IdsAt(1..Len(stations))
  /\ chatContext.deployment.moving_station_ids = IdsAt(MovingPlaces)

\* C30, amended: in every published snapshot, deployment.station_ids is the
\* list of the non-empty station ids of the stations in the current station
\* list, in list order, and deployment.moving_station_ids is the list of the
\* non-empty ids of those stations whose inMove flag is true
C30_NonEmptyStationIds ==
  /\ chatContext.deployment.station_ids
       = IdsAt({ k \in 1..Len(stations) : stations[k].station_id # "" })
  /\ chatContext.deployment.moving_station_ids
       = IdsAt({ k \in MovingPlaces : stations[k].station_id # "" })

\* the list has S1 and a station whose id is empty, both in a move: the
\* snapshot lists S1 alone, as a station and as a moving station
C30_Witness ==
  /\ Done(1)
  /\ IdsOf(stations) = <<"S1", "">>
  /\ MovingPlaces = {1, 2}
  /\ chatContext.deployment.station_ids = <<"S1">>
  /\ chatContext.deployment.moving_station_ids = <<"S1">>

\* the list has S1 and S2 and no station is in a move
C30_WitnessStill ==
  /\ Done(1)
  /\ MovingPlaces = {}
  /\ chatContext.deployment.station_ids = <<"S1", "S2">>
  /\ chatContext.deployment.moving_station_ids = <<>>

\* both fleets of call s were answered with success, with stations and no moves
NoMovesAnswered(s) ==
  \A f \in 1..2 :
    /\ hist[s][f].dep = "ok"
    /\ Len(hist[s][f].stations) > 0
    /\ Len(hist[s][f].moves) = 0

\* C31: when both fleets' deployment fetches succeed and return stations but no
\* moves, the station list after the run holds every returned station of both
\* fleets, fire first, none of them flagged in-move; the trip list is the
\* fallback trip only; and the snapshot's moving_station_ids and moves are empty.
C31_NoMovesKeepsStations ==
  (Done(1) /\ NoMovesAnswered(1)) =>
    /\ Len(stations) = Len(hist[1][1].stations) + Len(hist[1][2].stations)
    /\ IdsOf(stations) = IdsOf(hist[1][1].stations) \o IdsOf(hist[1][2].stations)
    /\ \A k \in 1..Len(stations) : ~stations[k].inMove
    /\ tripsLoaded /\ trips = SAMPLE_TRIPS
    /\ chatContext.deployment.moving_station_ids = <<>>
    /\ chatContext.deployment.moves = <<>>

\* two fleets with one station each and no moves: two stations, the fallback trip
C31_Witness ==
  /\ Done(1) /\ NoMovesAnswered(1)
  /\ Len(hist[1][1].stations) = 1 /\ Len(hist[1][2].stations) = 1
  /\ Len(stations) = 2
  /\ trips = SAMPLE_TRIPS
  /\ chatContext.deployment.moving_station_ids = <<>>

\* C32: toggleLayerVisibility(key) flips the visible flag of the entry with that
\* key and leaves unchanged the order of the list, every other entry's flag,
\* and all keys and labels; applying it once more gives the previous list back.
C32_ToggleFlipsOneFlag ==
  [][ \A key \in LayerKeys :
        toggleLayerVisibility(key) =>
          /\ Len(layerConfig') = Len(layerConfig)
          /\ \A n \in 1..Len(layerConfig) :
               /\ layerConfig'[n].key = layerConfig[n].key
               /\ layerConfig'[n].label = layerConfig[n].label
               /\ layerConfig'[n].visible =
                    IF layerConfig[n].key = key THEN ~layerConfig[n].visible
                    ELSE layerConfig[n].visible
          /\ ToggleEntry(layerConfig', key) = layerConfig ]_vars

\* two layers have been switched off and the list is in its first order
C32_Witness ==
  /\ tripsLoaded
  /\ [n \in 1..4 |-> layerConfig[n].key]
       = <<"heatmap", "vehicles", "vehicleIcons", "stations">>
  /\ [n \in 1..4 |-> layerConfig[n].visible] = <<TRUE, FALSE, TRUE, FALSE>>

\* the value a list of table f has after the step
DerefAfter(list) == [k \in 1..Len(list) |-> heap'[list[k]]]

\* C33: updateField yields a new list value that differs from the previous one
\* only in the edited field of the indexed station, and leaves the previously
\* supplied list value and its station objects (the built-in default inputs
\* included) unchanged; an out-of-range index changes nothing and reports no
\* change.
C33_EditCopiesOnWrite ==
  [][ \A f \in 1..2, index \in 0..1, e \in EditTexts :
        updateField(f, index, e[1], e[2]) =>
          LET before == TableList(f)
              after  == IF f = 1 THEN fireStations' ELSE policeStations'
          IN IF index + 1 \in 1..Len(before)
             THEN /\ Len(after) = Len(before)
                  /\ \A k \in 1..Len(after) :
                       DerefAfter(after)[k] =
                         IF k = index + 1
                         THEN [Deref(before)[k] EXCEPT ![e[1]] =
                                 IF e[1] \in NumericFields THEN Number(e[2]) ELSE e[2]]
                         ELSE Deref(before)[k]
                  /\ DerefAfter(before) = Deref(before)
                  /\ \A o \in 1..Len(DefaultHeap) : heap'[o] = heap[o]
             ELSE UNCHANGED homeVars ]_vars

\* the fetchAll call that reaches the end of its try block or its catch block
\* in this step
Completing(s) == run[s].pc # "done" /\ run'[s].pc = "done"

\* C34: the completion of a fetch sequence, by its normal or its error path,
\* replaces stations and trips by its results and resets currentTime to 0, and
\* leaves unchanged the playing/paused state, the playback speed, the three
\* selection ids, the layer configuration, the grid cells and the camera pose;
\* so a clock paused by a seek is still paused after a refresh.
C34_CompletionFrame ==
  [][ \A s \in Runs :
        Completing(s) =>
          /\ stations' = ResultStations(s)'
          /\ tripsLoaded' /\ trips' = ResultTrips(s)'
          /\ currentTime' = 0
          /\ UNCHANGED <<playing, playbackSpeed, selVars, layerConfig, gridCells,
                         viewState, isTilted>> ]_vars

\* the second fetchAll call has completed over a scene whose clock a seek had
\* paused at 1 s, with a cell selected, the map dragged, the speed changed and
\* the risk grid hidden: the clock is back at 0 and still paused
C34_Witness ==
  /\ Done(2)
  /\ ~playing /\ currentTime = 0
  /\ playbackSpeed = 4
  /\ selectedCellId = 0
  /\ viewState.latitude = 47625
  /\ ~VisibleIn(layerConfig, "heatmap")
  /\ Len(gridCells) = 1

\* the same after a refresh that ended in the catch block
C34_WitnessCaught ==
  /\ Done(2) /\ Caught(2)
  /\ ~playing /\ currentTime = 0
  /\ stations = <<>> /\ trips = SAMPLE_TRIPS
  /\ Truthy(selectedStationId)

\* C35: if every issued request is answered in the end, with success, with a
\* non-success status or by a rejection, then every started fetch sequence
\* finishes; a sequence that finishes on a mounted component leaves trips
\* non-null; so the loading state of a component that has started fetching
\* ends (or the component is torn down first).
C35_LoadingEnds ==
  /\ \A s \in Runs : (Started(s) ~> Done(s))
  /\ [](\A s \in Runs : (Done(s) /\ mounted) => tripsLoaded)
  /\ ((Started(1) /\ mounted /\ ~tripsLoaded) ~> (tripsLoaded \/ ~mounted))

\* the loading state has ended although the only sequence was refused the fire
\* data and its police request failed
C35_Witness ==
  /\ mounted /\ tripsLoaded
  /\ fetchSeq = 1 /\ Done(1)
  /\ hist[1][1].dep = "notok" /\ hist[1][2].dep = "reject"
  /\ trips = SAMPLE_TRIPS

\* it has ended with the second sequence, whose route request failed, finishing
\* before the first
C35_WitnessOverlap ==
  /\ mounted /\ tripsLoaded
  /\ fetchSeq = 2 /\ Done(2) /\ ~Done(1)
  /\ hist[2][1].routes = <<"reject">>

\* the ids listed in a sequence of ids
Listed(ids) == { ids[k] : k \in 1..Len(ids) }

\* C36: in every published snapshot the deployment summary is closed under
\* reference: every id of moving_station_ids is in station_ids, and the from
\* and to station ids of every entry of moves are in station_ids, after any
\* sequence of fetch completions, with partial failures and the error path.
C36_SnapshotClosed ==
  LET d == chatContext.deployment IN
  /\ Listed(d.moving_station_ids) \subseteq Listed(d.station_ids)
  /\ \A k \in 1..Len(d.moves) :
       /\ d.moves[k].from_station_id \in Listed(d.station_ids)
       /\ d.moves[k].to_station_id \in Listed(d.station_ids)

\* the snapshot lists a move and its two moving stations after two sequences
\* have completed, the earlier started one by the error path
C36_Witness ==
  /\ Done(1) /\ Done(2) /\ Caught(1)
  /\ Len(chatContext.deployment.moves) = 1
  /\ chatContext.deployment.moving_station_ids = <<"S1", "S2">>

\* the snapshot after the error path: no stations, no moves, the fallback trip
C36_WitnessCaught ==
  /\ Done(1) /\ Done(2) /\ Caught(2) /\ ~Caught(1)
  /\ run[1].allTrips # <<>>
  /\ trips = SAMPLE_TRIPS
  /\ chatContext.deployment =
       [station_ids |-> <<>>, moving_station_ids |-> <<>>, moves |-> <<>>]

\* C37: interpolatePosition never divides by zero and never leaves its loop
\* without a result: no coordinate it returns is NaN, whatever the path and
\* the time, and for every non-empty path (times in any order, duplicates
\* allowed) and every t strictly between the first and the last point's times
\* there is a segment whose times bracket t, and the first such segment starts
\* strictly earlier than it ends.
C37_NoDivisionByZero ==
  \A k \in WithPath :
    LET path == trips[k].path
        t    == currentTime
    IN /\ vehiclePositions[k][1] # NaN
       /\ vehiclePositions[k][2] # NaN
       /\ (FirstPt(k).time < t /\ t < LastPt(k).time)
            => \E i \in 1..(Len(path) - 1) :
                 /\ Brackets(path, i, t)
                 /\ \A j \in 1..(i - 1) : ~Brackets(path, j, t)
                 /\ path[i].time < path[i + 1].time

\* at time 2 the map shows a vehicle whose two path points both carry the
\* time 2, and one whose path has two points at time 2 between others
C37_Witness ==
  /\ currentTime = 2
  /\ \E k \in WithPath :
       /\ Len(trips[k].path) = 2
       /\ FirstPt(k).time = 2 /\ LastPt(k).time = 2
  /\ \E k \in WithPath :
       /\ Len(trips[k].path) = 4
       /\ trips[k].path[2].time = 2 /\ trips[k].path[3].time = 2

\* at time 5 a vehicle is on the second segment of a path whose times go
\* 4, 0, 6: the first segment runs backwards in time and brackets nothing
C37_WitnessUnsorted ==
  \E k \in WithPath :
    /\ currentTime = 5
    /\ Len(trips[k].path) = 3
    /\ FirstPt(k).time = 4 /\ trips[k].path[2].time = 0 /\ LastPt(k).time = 6
    /\ Brackets(trips[k].path, 2, 5)

\* C39: after any sequence of navigation clicks the chat panel is open only
\* while the active panel is the vehicle simulation; choosing the station editor
\* closes the chat, and choosing chat toggles it and switches to the vehicle
\* simulation.
C39_ChatOnlyOverMap ==
  /\ [](chatOpen => activePanel = "vehicles")
  /\ [][ /\ handleNavClick("stations")
             => (activePanel' = "stations" /\ ~chatOpen')
         /\ handleNavClick("chat")
             => (activePanel' = "vehicles" /\ chatOpen' = ~chatOpen) ]_vars

\* the chat has been opened from the station editor: the map is on screen
\* again, fetching for the second time, with the chat panel over it
C39_Witness ==
  /\ chatOpen /\ activePanel = "vehicles"
  /\ mounted /\ fetchSeq = 2

\* the station editor has been chosen while a chat request was in flight: the
\* chat is closed and the request is still under way
C39_WitnessEditor ==
  /\ activePanel = "stations" /\ ~chatOpen
  /\ streams # {}

\* the requests in flight that the chat panel on screen has issued
LiveStreams == { r \in streams : r.live }

C38_WitnessClosed ==
  /\ PanelShown
  /\ Cardinality(LiveStreams) = 1
  /\ Cardinality(streams) = 2

====
